---- MODULE Spec2Model ----
(***************************************************************************)
(* Model of nylas-resend: the Resend-compatible facade (Emails), the       *)
(* request/response/webhook transformers and the address parser.           *)
(*                                                                         *)
(* JavaScript values are tagged records:                                   *)
(*   Undefined, Null, Str(s), List(l), Obj(n), Buf(b), Num(n), NaN.        *)
(* A string is a sequence of one-character strings, so that trimming and   *)
(* the address pattern are computed character by character.                *)
(***************************************************************************)
EXTENDS Integers, Sequences, FiniteSets, TLC

\* ------------------------------------------------------------------------
\* Bounds of the model
\* ------------------------------------------------------------------------

\* Largest number of optional request fields (text, html, cc, bcc, replyTo,
\* headers, tags, attachments, scheduledAt) a caller sets in one request.
MaxOptionalFields == 3

\* Largest number of messages in one response of the client's listMessages.
MaxListed == 2

\* Largest number of calls in flight at once on one Emails instance.
MaxCalls == 2

\* Largest number of characters of the display name (or of the first string)
\* handed to the address functions.
MaxNameLen == 3

\* Largest number of characters of the address (or of the second string)
\* handed to the address functions.
MaxEmailLen == 2
MaxVerifyCalls == 2

\* ------------------------------------------------------------------------
\* JavaScript values
\* ------------------------------------------------------------------------

Undefined == [t |-> "undefined"]
Null == [t |-> "null"]
NaN == [t |-> "nan"]
Str(s) == [t |-> "string", s |-> s]
List(l) == [t |-> "array", l |-> l]
Obj(n) == [t |-> "object", n |-> n]
Buf(b) == [t |-> "buffer", b |-> b]
Num(n) == [t |-> "number", n |-> n]
Bool(b) == [t |-> "boolean", b |-> b]
\* An object with named properties: f maps its own keys to their values.
Rec(f) == [t |-> "record", f |-> f]

\* typeof v === 'object' (true of null as well)
TypeofObject(v) == v.t \in {"null", "array", "object", "buffer", "record"}

\* v.k for a value v that is not null or undefined: the property when v is an
\* object that has it, undefined otherwise.
Get(v, k) == IF v.t = "record" /\ k \in DOMAIN v.f THEN v.f[k] ELSE Undefined

\* ToBoolean: undefined, null, NaN, 0 and the empty string are falsy;
\* arrays, objects and buffers are truthy whatever they hold.
Truthy(v) ==
  CASE v.t = "undefined" -> FALSE
    [] v.t = "null" -> FALSE
    [] v.t = "nan" -> FALSE
    [] v.t = "string" -> v.s # <<>>
    [] v.t = "number" -> v.n # 0
    [] v.t = "boolean" -> v.b
    [] OTHER -> TRUE

\* a || b
OrElse(a, b) == IF Truthy(a) THEN a ELSE b

\* A record with the given keys, dropping those whose value is undefined.
Present(f) == Rec([k \in {x \in DOMAIN f : f[x] # Undefined} |-> f[k]])

\* f applied to every element of a sequence (Array.prototype.map)
Map(f(_), l) == [i \in 1..Len(l) |-> f(l[i])]

\* ------------------------------------------------------------------------
\* Strings
\* ------------------------------------------------------------------------

\* Characters String.prototype.trim removes and \s matches.
WhiteSpace == {" ", "\t", "\n"}
\* Characters the regular expression's . does not match.
LineTerminator == {"\n"}

AllIn(s, lo, hi, C) == \A i \in lo..hi : s[i] \in C
NoneIn(s, lo, hi, C) == \A i \in lo..hi : s[i] \notin C

\* Mutant: String.prototype.trimStart
Trim_startOnly(s) ==
  LET keep == {i \in 1..Len(s) : s[i] \notin WhiteSpace}
  IN IF keep = {} THEN <<>>
     ELSE LET lo == CHOOSE i \in keep : \A j \in keep : i <= j
          IN SubSeq(s, lo, Len(s))

\* String.prototype.trim
Trim(s) ==
  LET keep == {i \in 1..Len(s) : s[i] \notin WhiteSpace}
  IN IF keep = {} THEN <<>>
     ELSE LET lo == CHOOSE i \in keep : \A j \in keep : i <= j
              hi == CHOOSE i \in keep : \A j \in keep : i >= j
          IN SubSeq(s, lo, hi)

\* ------------------------------------------------------------------------
\* Email parsing utilities (transformers.ts)
\* ------------------------------------------------------------------------

\* A participant; name is Undefined when the object has no name key.
Participant(name, email) == [name |-> name, email |-> email]

\* The positions k at which the lazy (.+?) of the optional name group can
\* end so that the rest of /^(?:(.+?)\s*)?<(.+?)>$/ matches s: s[1..k] has no
\* line terminator, the first character after k that is not white space is
\* "<", and what follows it up to the final ">" is non-empty with no line
\* terminator.
NameGroupEnds(s) ==
  LET n == Len(s)
  IN {k \in 1..n :
        /\ NoneIn(s, 1, k, LineTerminator)
        /\ \E j \in (k+1)..(n-2) :
             /\ AllIn(s, k+1, j-1, WhiteSpace)
             /\ s[j] = "<"
             /\ NoneIn(s, j+1, n-1, LineTerminator)
             /\ s[n] = ">"}

\* Mutant: the name group is not optional, "<email>" alone does not match.
BareBracketMatch_never(s) == FALSE

\* The match without the optional group: "<" (.+?) ">" over the whole of s.
BareBracketMatch(s) ==
  LET n == Len(s)
  IN /\ n >= 3
     /\ s[1] = "<"
     /\ s[n] = ">"
     /\ NoneIn(s, 2, n-1, LineTerminator)

\* Mutant: match[2] is used as it is.
BracketEmail_untrimmed(s, j) == SubSeq(s, j + 1, Len(s) - 1)

\* match[2].trim(), for the match whose "<" is at position j of s
BracketEmail(s, j) == Trim(SubSeq(s, j + 1, Len(s) - 1))

parseEmailAddress(input) ==
  LET trimmed == Trim(input)
      n == Len(trimmed)
      ends == NameGroupEnds(trimmed)
  IN IF ends # {}
     THEN \* the group is tried first and (.+?) takes the shortest prefix
          LET k == CHOOSE x \in ends : \A y \in ends : x <= y
              j == CHOOSE x \in (k+1)..(n-2) :
                     /\ AllIn(trimmed, k+1, x-1, WhiteSpace)
                     /\ trimmed[x] = "<"
              name == Trim(SubSeq(trimmed, 1, k))
              email == BracketEmail(trimmed, j)
          IN IF name # <<>> THEN Participant(Str(name), email)
             ELSE Participant(Undefined, email)
     ELSE IF BareBracketMatch(trimmed)
     THEN Participant(Undefined, BracketEmail(trimmed, 1))
     ELSE Participant(Undefined, trimmed)

\* Mutant: an empty list instead of undefined for a falsy input.
toParticipants_emptyForFalsy(input) ==
  IF ~Truthy(input) THEN List(<<>>)
  ELSE LET emails == IF input.t = "array" THEN input.l ELSE <<input.s>>
       IN List(Map(parseEmailAddress, emails))

toParticipants(input) ==
  IF ~Truthy(input) THEN Undefined
  ELSE LET emails == IF input.t = "array" THEN input.l ELSE <<input.s>>
       IN List(Map(parseEmailAddress, emails))

\* Mutant: the name is never written.
formatParticipant_emailOnly(participant) == participant.email

formatParticipant(participant) ==
  IF Truthy(participant.name)
  THEN participant.name.s \o <<" ", "<">> \o participant.email \o <<">">>
  ELSE participant.email

EmailOf(p) == p.email

\* Mutant: the participants are formatted, display names included.
participantsToEmails_formatted(participants) ==
  IF ~Truthy(participants) THEN <<>>
  ELSE Map(formatParticipant, participants.l)

participantsToEmails(participants) ==
  IF ~Truthy(participants) THEN <<>>
  ELSE Map(EmailOf, participants.l)

\* ------------------------------------------------------------------------
\* Conversions used by the send transform
\* ------------------------------------------------------------------------

Base64Alphabet == <<"A", "B", "C", "D", "E", "F", "G", "H", "I", "J", "K", "L", "M", "N", "O", "P", "Q", "R", "S", "T", "U", "V", "W", "X", "Y", "Z",
  "a", "b", "c", "d", "e", "f", "g", "h", "i", "j", "k", "l", "m", "n", "o", "p", "q", "r", "s", "t", "u", "v", "w", "x", "y", "z",
  "0", "1", "2", "3", "4", "5", "6", "7", "8", "9", "+", "/">>

\* Buffer.prototype.toString('base64') over a sequence of bytes 0..255
RECURSIVE Base64(_)
Base64(b) ==
  IF Len(b) = 0 THEN <<>>
  ELSE IF Len(b) = 1
  THEN << Base64Alphabet[(b[1] \div 4) + 1],
          Base64Alphabet[((b[1] % 4) * 16) + 1], "=", "=" >>
  ELSE IF Len(b) = 2
  THEN << Base64Alphabet[(b[1] \div 4) + 1],
          Base64Alphabet[((b[1] % 4) * 16 + (b[2] \div 16)) + 1],
          Base64Alphabet[((b[2] % 16) * 4) + 1], "=" >>
  ELSE << Base64Alphabet[(b[1] \div 4) + 1],
          Base64Alphabet[((b[1] % 4) * 16 + (b[2] \div 16)) + 1],
          Base64Alphabet[((b[2] % 16) * 4 + (b[3] \div 64)) + 1],
          Base64Alphabet[(b[3] % 64) + 1] >>
       \o Base64(SubSeq(b, 4, Len(b)))

OctetStream == <<"a", "p", "p", "l", "i", "c", "a", "t", "i", "o", "n", "/", "o", "c", "t", "e", "t", "-", "s", "t", "r", "e", "a", "m">>

\* Date strings of the model and their epoch milliseconds (all within the
\* first weeks of 1970, so that the milliseconds are 32-bit integers).
DateSecondDay == <<"1", "9", "7", "0", "-", "0", "1", "-", "0", "2", "T", "0", "0", ":", "0", "0", ":", "0", "0", "Z">>
DateHalfSecond == <<"1", "9", "7", "0", "-", "0", "1", "-", "0", "1", "T", "0", "0", ":", "0", "0", ":", "0", "1", ".", "5", "0", "0", "Z">>
DateBefore1970 == <<"1", "9", "6", "9", "-", "1", "2", "-", "3", "1", "T", "2", "3", ":", "5", "9", ":", "5", "8", ".", "5", "0", "0", "Z">>
DateInvalid == <<"n", "o", "t", "-", "a", "-", "d", "a", "t", "e">>

DateEpoch == <<"1", "9", "7", "0", "-", "0", "1", "-", "0", "1", "T", "0", "0", ":", "0", "0", ":", "0", "0", "Z">>
DateBadMonth == <<"1", "9", "7", "0", "-", "1", "3", "-", "0", "1", "T", "0", "0", ":", "0", "0", ":", "0", "0", "Z">>

DigitChars == <<"0", "1", "2", "3", "4", "5", "6", "7", "8", "9">>

\* The number written by the digits s[from..to].
RECURSIVE DigitsValue(_, _, _)
DigitsValue(s, from, to) ==
  IF to < from THEN 0
  ELSE 10 * DigitsValue(s, from, to - 1)
       + (CHOOSE d \in 0..9 : DigitChars[d + 1] = s[to])

\* s is written YYYY-MM-DDTHH:mm:ssZ or YYYY-MM-DDTHH:mm:ss.sssZ
IsDateTimeFormat(s) ==
  LET digit(i) == \E d \in 1..10 : DigitChars[d] = s[i]
  IN /\ Len(s) \in {20, 24}
     /\ \A i \in {1, 2, 3, 4, 6, 7, 9, 10, 12, 13, 15, 16, 18, 19} : digit(i)
     /\ s[5] = "-" /\ s[8] = "-" /\ s[11] = "T" /\ s[14] = ":" /\ s[17] = ":"
     /\ s[Len(s)] = "Z"
     /\ Len(s) = 24 => s[20] = "." /\ \A i \in 21..23 : digit(i)

\* The number of days from 1970-01-01 to the civil date y-m-d.
DaysFromCivil(y, m, d) ==
  LET yy == IF m <= 2 THEN y - 1 ELSE y
      era == yy \div 400
      yoe == yy - era * 400
      doy == (153 * (IF m > 2 THEN m - 3 ELSE m + 9) + 2) \div 5 + d - 1
      doe == yoe * 365 + yoe \div 4 - yoe \div 100 + doy
  IN era * 146097 + doe - 719468

DaysInMonth(y, m) ==
  IF m = 2
  THEN (IF y % 4 = 0 /\ (y % 100 # 0 \/ y % 400 = 0) THEN 29 ELSE 28)
  ELSE IF m \in {4, 6, 9, 11} THEN 30 ELSE 31

\* new Date(s).getTime() for the date-time strings of the model: the epoch
\* milliseconds of a UTC date-time, NaN for a string that is not a date or
\* that has a field out of range.
DateGetTime(s) ==
  IF ~IsDateTimeFormat(s) THEN NaN
  ELSE LET y == DigitsValue(s, 1, 4)
           m == DigitsValue(s, 6, 7)
           d == DigitsValue(s, 9, 10)
           h == DigitsValue(s, 12, 13)
           mi == DigitsValue(s, 15, 16)
           sec == DigitsValue(s, 18, 19)
           frac == IF Len(s) = 24 THEN DigitsValue(s, 21, 23) ELSE 0
       IN IF /\ m \in 1..12
             /\ d \in 1..DaysInMonth(y, m)
             /\ h \in 0..23 /\ mi \in 0..59 /\ sec \in 0..59
          THEN Num(DaysFromCivil(y, m, d) * 86400000 + h * 3600000
                   + mi * 60000 + sec * 1000 + frac)
          ELSE NaN

\* ------------------------------------------------------------------------
\* Request transformers (transformers.ts)
\* ------------------------------------------------------------------------

\* Mutant: content_id is always set, to '' when the attachment has none.
transformAttachment_contentIdAlways(att) ==
  [filename |-> att.filename,
   content |-> IF att.content.t = "string" THEN att.content.s
               ELSE IF att.content.t = "buffer"
               THEN OrElse(Str(Base64(att.content.b)), Str(<<>>)).s
               ELSE <<>>,
   content_type |-> OrElse(att.contentType, Str(OctetStream)).s,
   content_id |-> OrElse(att.contentId, Str(<<>>))]

\* One entry of nylasRequest.attachments
transformAttachment(att) ==
  [filename |-> att.filename,
   content |-> IF att.content.t = "string" THEN att.content.s
               ELSE IF att.content.t = "buffer"
               THEN OrElse(Str(Base64(att.content.b)), Str(<<>>)).s
               ELSE <<>>,
   content_type |-> OrElse(att.contentType, Str(OctetStream)).s,
   content_id |-> IF Truthy(att.contentId) THEN att.contentId ELSE Undefined]

\* Mutant: tests the list itself (if (cc)) instead of its length.
NonEmptyList_anyList(x) == x.t = "array"

\* x?.length is truthy
NonEmptyList(x) == x.t = "array" /\ Len(x.l) > 0

\* Mutant: html ?? text ?? '' (an empty html hides the text).
GrantBody_nullish(request) ==
  IF request.html # Undefined THEN request.html
  ELSE IF request.text # Undefined THEN request.text
  ELSE Str(<<>>)

\* request.html || request.text || '' of transformSendRequest
GrantBody(request) == OrElse(OrElse(request.html, request.text), Str(<<>>))

\* request.html || request.text || '' of transformDomainSendRequest
DomainBody(request) == OrElse(OrElse(request.html, request.text), Str(<<>>))

\* Mutant: plain text as soon as there is no html, whatever text is.
IsPlaintext_noHtml(request) == ~Truthy(request.html)

\* !request.html && !!request.text
IsPlaintext(request) == ~Truthy(request.html) /\ Truthy(request.text)

\* Mutant: warns as soon as headers or tags is given, even when empty.
SendRequestWarnings_whenGiven(request) ==
  (IF request.headers.t = "object" THEN <<"headers">> ELSE <<>>)
  \o (IF request.tags.t = "array" THEN <<"tags">> ELSE <<>>)

\* The console.warn calls of transformSendRequest, in order.
SendRequestWarnings(request) ==
  (IF request.headers.t = "object" /\ request.headers.n > 0
   THEN <<"headers">> ELSE <<>>)
  \o (IF NonEmptyList(request.tags) THEN <<"tags">> ELSE <<>>)

\* Mutant: Math.round instead of Math.floor.
SendAt_rounded(timestamp) == Num((timestamp.n + 500) \div 1000)

\* Math.floor(timestamp / 1000)
SendAt(timestamp) == Num(timestamp.n \div 1000)

\* The wire request of the grant-based send. keys is the set of own keys of
\* the object; a key that is not set holds Undefined.
transformSendRequest(request) ==
  LET cc == toParticipants(request.cc)
      bcc == toParticipants(request.bcc)
      replyTo == toParticipants(request.replyTo)
      hasAtt == NonEmptyList(request.attachments)
      timestamp == IF Truthy(request.scheduledAt)
                   THEN DateGetTime(request.scheduledAt.s) ELSE NaN
      hasSendAt == Truthy(request.scheduledAt) /\ timestamp # NaN
  IN [keys |-> {"subject", "body", "to"}
               \cup (IF Truthy(request.from) THEN {"from"} ELSE {})
               \cup (IF NonEmptyList(cc) THEN {"cc"} ELSE {})
               \cup (IF NonEmptyList(bcc) THEN {"bcc"} ELSE {})
               \cup (IF NonEmptyList(replyTo) THEN {"reply_to"} ELSE {})
               \cup (IF hasAtt THEN {"attachments"} ELSE {})
               \cup (IF hasSendAt THEN {"send_at"} ELSE {}),
      subject |-> request.subject,
      body |-> GrantBody(request),
      to |-> toParticipants(request.to),
      from |-> IF Truthy(request.from)
               THEN List(<<parseEmailAddress(request.from.s)>>) ELSE Undefined,
      cc |-> IF NonEmptyList(cc) THEN cc ELSE Undefined,
      bcc |-> IF NonEmptyList(bcc) THEN bcc ELSE Undefined,
      reply_to |-> IF NonEmptyList(replyTo) THEN replyTo ELSE Undefined,
      attachments |-> IF hasAtt
                      THEN List(Map(transformAttachment, request.attachments.l))
                      ELSE Undefined,
      send_at |-> IF hasSendAt THEN SendAt(timestamp) ELSE Undefined]

\* Mutant: an else-if chain, only the first condition that holds warns.
DomainSendRequestWarnings_firstOnly(request) ==
  IF request.headers.t = "object" /\ request.headers.n > 0 THEN <<"headers">>
  ELSE IF NonEmptyList(request.tags) THEN <<"tags">>
  ELSE IF NonEmptyList(request.attachments) THEN <<"attachments">>
  ELSE IF Truthy(request.scheduledAt) THEN <<"scheduledAt">>
  ELSE IF Truthy(request.replyTo) THEN <<"replyTo">>
  ELSE <<>>

\* The console.warn calls of transformDomainSendRequest, in order.
DomainSendRequestWarnings(request) ==
  (IF request.headers.t = "object" /\ request.headers.n > 0
   THEN <<"headers">> ELSE <<>>)
  \o (IF NonEmptyList(request.tags) THEN <<"tags">> ELSE <<>>)
  \o (IF NonEmptyList(request.attachments) THEN <<"attachments">> ELSE <<>>)
  \o (IF Truthy(request.scheduledAt) THEN <<"scheduledAt">> ELSE <<>>)
  \o (IF Truthy(request.replyTo) THEN <<"replyTo">> ELSE <<>>)

\* Mutant: forwards reply_to the way the grant-based transform does.
transformDomainSendRequest_replyTo(request) ==
  LET cc == toParticipants(request.cc)
      bcc == toParticipants(request.bcc)
      replyTo == toParticipants(request.replyTo)
  IN [keys |-> {"from", "to", "subject", "body", "is_plaintext"}
               \cup (IF NonEmptyList(cc) THEN {"cc"} ELSE {})
               \cup (IF NonEmptyList(bcc) THEN {"bcc"} ELSE {})
               \cup (IF NonEmptyList(replyTo) THEN {"reply_to"} ELSE {}),
      from |-> parseEmailAddress(request.from.s),
      to |-> toParticipants(request.to),
      subject |-> request.subject,
      body |-> DomainBody(request),
      is_plaintext |-> IsPlaintext(request),
      cc |-> IF NonEmptyList(cc) THEN cc ELSE Undefined,
      bcc |-> IF NonEmptyList(bcc) THEN bcc ELSE Undefined,
      reply_to |-> IF NonEmptyList(replyTo) THEN replyTo ELSE Undefined]

\* The wire request of the domain-based send.
transformDomainSendRequest(request) ==
  LET cc == toParticipants(request.cc)
      bcc == toParticipants(request.bcc)
  IN [keys |-> {"from", "to", "subject", "body", "is_plaintext"}
               \cup (IF NonEmptyList(cc) THEN {"cc"} ELSE {})
               \cup (IF NonEmptyList(bcc) THEN {"bcc"} ELSE {}),
      from |-> parseEmailAddress(request.from.s),
      to |-> toParticipants(request.to),
      subject |-> request.subject,
      body |-> DomainBody(request),
      is_plaintext |-> IsPlaintext(request),
      cc |-> IF NonEmptyList(cc) THEN cc ELSE Undefined,
      bcc |-> IF NonEmptyList(bcc) THEN bcc ELSE Undefined]


\* ------------------------------------------------------------------------
\* Webhook transformers (transformers.ts) and handler (webhooks.ts)
\* ------------------------------------------------------------------------

MessageCreated == <<"m", "e", "s", "s", "a", "g", "e", ".", "c", "r", "e", "a", "t", "e", "d">>
EmailReceived == <<"e", "m", "a", "i", "l", ".", "r", "e", "c", "e", "i", "v", "e", "d">>

isNylasMessageWebhook(payload) ==
  IF ~TypeofObject(payload) \/ payload = Null THEN FALSE
  ELSE IF Get(payload, "type").t # "string" THEN FALSE
  ELSE IF ~TypeofObject(Get(payload, "data")) \/ Get(payload, "data") = Null
  THEN FALSE
  ELSE IF \/ ~TypeofObject(Get(Get(payload, "data"), "object"))
          \/ Get(Get(payload, "data"), "object") = Null
  THEN FALSE
  ELSE TRUE

\* Mutant: accepts every well-shaped webhook, whatever its type.
isMessageCreatedWebhook_anyType(payload) == isNylasMessageWebhook(payload)

isMessageCreatedWebhook(payload) ==
  IF ~isNylasMessageWebhook(payload) THEN FALSE
  ELSE Get(payload, "type") = Str(MessageCreated)

\* The dereferences of transformWebhookToInboundEvent that raise a TypeError:
\* message.from[0] when from is undefined or null, participants.map when a
\* recipient field is truthy but not an array, attachments?.map when
\* attachments is neither nullish nor an array.
WebhookTransformThrows(payload) ==
  LET message == Get(Get(payload, "data"), "object")
  IN \/ Get(message, "from").t \in {"undefined", "null"}
     \/ \E k \in {"to", "cc", "bcc", "reply_to"} :
          Truthy(Get(message, k)) /\ Get(message, k).t # "array"
     \/ Get(message, "attachments").t \notin {"undefined", "null", "array"}

\* Mutant: the bare address of the first participant.
FirstFrom_bare(from) ==
  IF from.t = "array" /\ Len(from.l) > 0 THEN from.l[1].email
  ELSE <<>>

\* message.from[0] ? formatParticipant(message.from[0]) : ''
FirstFrom(from) ==
  IF from.t = "array" /\ Len(from.l) > 0 THEN formatParticipant(from.l[1])
  ELSE <<>>

\* Mutant: the provider's entry is passed on whole.
webhookAttachment_unreduced(att) == att

\* One entry of the event's data.attachments
webhookAttachment(att) ==
  [filename |-> att.filename, contentType |-> att.content_type,
   size |-> att.size]

\* Mutant: the time of the event is derived from the message's own date.
EventCreatedAt_messageDate(payload) ==
  Get(Get(Get(payload, "data"), "object"), "date")

\* createdAt: payload.time
EventCreatedAt(payload) == Get(payload, "time")

\* The event built by transformWebhookToInboundEvent when no dereference
\* raises.
transformWebhookToInboundEvent(payload) ==
  LET message == Get(Get(payload, "data"), "object")
  IN [type |-> EmailReceived,
      createdAt |-> EventCreatedAt(payload),
      data |->
        [id |-> Get(message, "id"),
         from |-> FirstFrom(Get(message, "from")),
         to |-> participantsToEmails(Get(message, "to")),
         cc |-> participantsToEmails(Get(message, "cc")),
         bcc |-> participantsToEmails(Get(message, "bcc")),
         replyTo |-> participantsToEmails(Get(message, "reply_to")),
         subject |-> Get(message, "subject"),
         text |-> Get(message, "body"),
         html |-> Get(message, "body"),
         createdAt |-> EventCreatedAt(payload),
         attachments |->
           IF Get(message, "attachments").t = "array"
           THEN List(Map(webhookAttachment, Get(message, "attachments").l))
           ELSE Undefined]]

\* handleInboundWebhook: how the call ends ("null", "event", or "throw" when
\* the TypeError of the transformer propagates to the caller) and the event.
handleInboundWebhook(payload) ==
  IF ~isMessageCreatedWebhook(payload)
  THEN [outcome |-> "null", event |-> Null]
  ELSE IF WebhookTransformThrows(payload)
  THEN [outcome |-> "throw", event |-> Undefined]
  ELSE [outcome |-> "event", event |-> transformWebhookToInboundEvent(payload)]

\* ------------------------------------------------------------------------
\* Thrown values
\* ------------------------------------------------------------------------

\* new NylasRequestError(message, statusCode, errorType, requestId): an Error
\* whose name is 'NylasRequestError'.
NylasRequestError(message, statusCode, errorType, requestId) ==
  [t |-> "NylasRequestError", message |-> message,
   name |-> <<"N", "y", "l", "a", "s", "R", "e", "q", "u", "e", "s", "t", "E", "r", "r", "o", "r">>, statusCode |-> statusCode,
   errorType |-> errorType, requestId |-> requestId]

\* An instance of Error (or of a built-in subclass) that is not a
\* NylasRequestError.
Error(name, message) == [t |-> "Error", name |-> name, message |-> message]

\* The TypeError of reading a property of undefined or null, or of calling
\* what is not a function.
TypeError == Error(<<"T", "y", "p", "e", "E", "r", "r", "o", "r">>, <<"n", "o", "t", " ", "a", "n", " ", "o", "b", "j", "e", "c", "t">>)
\* The RangeError of Date.prototype.toISOString on an invalid date.
RangeError == Error(<<"R", "a", "n", "g", "e", "E", "r", "r", "o", "r">>, <<"I", "n", "v", "a", "l", "i", "d", " ", "t", "i", "m", "e", " ", "v", "a", "l", "u", "e">>)

Nullish(v) == v.t \in {"undefined", "null"}

\* ------------------------------------------------------------------------
\* Numbers and dates as strings
\* ------------------------------------------------------------------------

\* The decimal digits of a natural number, at least width of them.
RECURSIVE Pad(_, _)
Pad(n, width) ==
  IF n < 10 /\ width <= 1 THEN <<DigitChars[n + 1]>>
  ELSE Pad(n \div 10, width - 1) \o <<DigitChars[(n % 10) + 1]>>

\* String(v)
StringOf(v) ==
  CASE v.t = "string" -> v.s
    [] v.t = "number" -> IF v.n < 0 THEN <<"-">> \o Pad(-v.n, 1) ELSE Pad(v.n, 1)
    [] v.t = "undefined" -> <<"u", "n", "d", "e", "f", "i", "n", "e", "d">>
    [] v.t = "null" -> <<"n", "u", "l", "l">>
    [] v.t = "nan" -> <<"N", "a", "N">>
    [] OTHER -> <<"[", "o", "b", "j", "e", "c", "t", " ", "O", "b", "j", "e", "c", "t", "]">>

\* new Date(ms).toISOString() for a year of four digits: the civil date of
\* the day number, then the time of day.
ToISOString(ms) ==
  LET days == ms \div 86400000
      rest == ms % 86400000
      z == days + 719468
      era == z \div 146097
      doe == z - era * 146097
      yoe == (doe - doe \div 1460 + doe \div 36524 - doe \div 146096) \div 365
      doy == doe - (365 * yoe + yoe \div 4 - yoe \div 100)
      mp == (5 * doy + 2) \div 153
      d == doy - (153 * mp + 2) \div 5 + 1
      m == IF mp < 10 THEN mp + 3 ELSE mp - 9
      y == yoe + era * 400 + (IF m <= 2 THEN 1 ELSE 0)
  IN Pad(y, 4) \o <<"-">> \o Pad(m, 2) \o <<"-">> \o Pad(d, 2) \o <<"T">>
     \o Pad(rest \div 3600000, 2) \o <<":">>
     \o Pad((rest \div 60000) % 60, 2) \o <<":">>
     \o Pad((rest \div 1000) % 60, 2) \o <<".">>
     \o Pad(rest % 1000, 3) \o <<"Z">>

\* ------------------------------------------------------------------------
\* Response transformers (transformers.ts)
\* ------------------------------------------------------------------------

\* response.data.id raises a TypeError when response or response.data is
\* undefined or null.
SendResponseThrows(response) ==
  Nullish(response) \/ Nullish(Get(response, "data"))

transformSendResponse(response) ==
  [id |-> Get(Get(response, "data"), "id")]

transformDomainSendResponse(response) ==
  [id |-> Get(Get(response, "data"), "id")]

\* What transformMessageToEmail throws, Undefined when it returns: a TypeError
\* for a message or from list that is undefined or null and for a recipient
\* field that is truthy but not an array, a RangeError from toISOString when
\* date is not a number.
MessageToEmailThrows(message) ==
  IF \/ Nullish(message)
     \/ Nullish(Get(message, "from"))
     \/ \E k \in {"to", "cc", "bcc", "reply_to"} :
          Truthy(Get(message, k)) /\ Get(message, k).t # "array"
  THEN TypeError
  ELSE IF Get(message, "date").t # "number" THEN RangeError
  ELSE Undefined

EmailSent == <<"e", "m", "a", "i", "l", ".", "s", "e", "n", "t">>

transformMessageToEmail(message) ==
  [id |-> Get(message, "id"),
   object |-> "email",
   from |-> FirstFrom(Get(message, "from")),
   to |-> participantsToEmails(Get(message, "to")),
   cc |-> participantsToEmails(Get(message, "cc")),
   bcc |-> participantsToEmails(Get(message, "bcc")),
   replyTo |-> participantsToEmails(Get(message, "reply_to")),
   subject |-> Get(message, "subject"),
   text |-> Get(message, "body"),
   html |-> Get(message, "body"),
   createdAt |-> ToISOString(Get(message, "date").n * 1000),
   lastEvent |-> EmailSent]

\* ------------------------------------------------------------------------
\* The Emails facade (emails.ts)
\* ------------------------------------------------------------------------

\* A ResendError; statusCode is Undefined when the object has no such key.
ResendError(message, name, statusCode) ==
  [message |-> message, name |-> name, statusCode |-> statusCode]

ValidationErrorName == <<"v", "a", "l", "i", "d", "a", "t", "i", "o", "n", "_", "e", "r", "r", "o", "r">>
MissingField == <<"M", "i", "s", "s", "i", "n", "g", " ", "r", "e", "q", "u", "i", "r", "e", "d", " ", "f", "i", "e", "l", "d", ":", " ">>
MissingEmailId == <<"M", "i", "s", "s", "i", "n", "g", " ", "r", "e", "q", "u", "i", "r", "e", "d", " ", "p", "a", "r", "a", "m", "e", "t", "e", "r", ":", " ", "e", "m", "a", "i", "l", "I", "d">>

\* Mutant: a NylasRequestError without errorType keeps the class name.
toResendError_className(err) ==
  IF err.t = "NylasRequestError"
  THEN ResendError(err.message, OrElse(err.errorType, Str(err.name)).s,
                   err.statusCode)
  ELSE IF err.t = "Error"
  THEN ResendError(err.message, err.name, Undefined)
  ELSE ResendError(StringOf(err), <<"u", "n", "k", "n", "o", "w", "n", "_", "e", "r", "r", "o", "r">>, Undefined)

toResendError(err) ==
  IF err.t = "NylasRequestError"
  THEN ResendError(err.message,
                   OrElse(err.errorType, Str(<<"a", "p", "i", "_", "e", "r", "r", "o", "r">>)).s,
                   err.statusCode)
  ELSE IF err.t = "Error"
  THEN ResendError(err.message, err.name, Undefined)
  ELSE ResendError(StringOf(err), <<"u", "n", "k", "n", "o", "w", "n", "_", "e", "r", "r", "o", "r">>, Undefined)

\* The two shapes of ApiResponse
Success(data) == [data |-> data, error |-> Null]
Failure(error) == [data |-> Null, error |-> error]

\* How a piece of a method body ends: it returns a result, throws, or reaches
\* its await with the calls made so far.
Returned(result) == [kind |-> "return", result |-> result, calls |-> <<>>]
Thrown(err) == [kind |-> "throw", err |-> err, calls |-> <<>>]
Awaiting(calls) == [kind |-> "await", calls |-> calls]

\* A call the facade makes to a transformer or to the client.
Step(name, arg) == [step |-> name, arg |-> arg]

\* Mutant: no catch clause, what the body throws reaches the caller.
Catch_rethrow(c) == c

\* try { ... } catch (err) { return {data: null, error: toResendError(err)} }
Catch(c) ==
  IF c.kind = "throw"
  THEN [kind |-> "return", result |-> Failure(toResendError(c.err)),
        calls |-> c.calls]
  ELSE c

\* NylasClient.hasDomain
hasDomain(domain) == Truthy(domain)

\* Mutant: subject is checked before from and to.
ValidateSend_subjectFirst(request) ==
  IF ~Truthy(Get(request, "subject")) THEN <<"s", "u", "b", "j", "e", "c", "t">>
  ELSE IF ~Truthy(Get(request, "from")) THEN <<"f", "r", "o", "m">>
  ELSE IF \/ ~Truthy(Get(request, "to"))
          \/ (Get(request, "to").t = "array" /\ Len(Get(request, "to").l) = 0)
  THEN <<"t", "o">>
  ELSE <<>>

\* The required-field checks of send: the first missing field, <<>> if none.
ValidateSend(request) ==
  IF ~Truthy(Get(request, "from")) THEN <<"f", "r", "o", "m">>
  ELSE IF \/ ~Truthy(Get(request, "to"))
          \/ (Get(request, "to").t = "array" /\ Len(Get(request, "to").l) = 0)
  THEN <<"t", "o">>
  ELSE IF ~Truthy(Get(request, "subject")) THEN <<"s", "u", "b", "j", "e", "c", "t">>
  ELSE <<>>

\* Mutant: the domain wire request is handed to the grant-based send.
SendDispatch_grantTransport(request, domain) ==
  IF hasDomain(domain)
  THEN <<Step("transformDomainSendRequest", request.f),
         Step("sendMessage", transformDomainSendRequest(request.f))>>
  ELSE <<Step("transformSendRequest", request.f),
         Step("sendMessage", transformSendRequest(request.f))>>

\* The transformer call and the client call of send, up to its await.
SendDispatch(request, domain) ==
  IF hasDomain(domain)
  THEN <<Step("transformDomainSendRequest", request.f),
         Step("sendDomainMessage", transformDomainSendRequest(request.f))>>
  ELSE <<Step("transformSendRequest", request.f),
         Step("sendMessage", transformSendRequest(request.f))>>

\* Mutant: a missing subject does not stop the send.
SendUntilAwait_subjectUnchecked(request, domain) ==
  IF Nullish(request) THEN Thrown(TypeError)
  ELSE IF ValidateSend(request) \notin {<<>>, <<"s", "u", "b", "j", "e", "c", "t">>}
  THEN Returned(Failure(ResendError(MissingField \o ValidateSend(request),
                                    ValidationErrorName, Undefined)))
  ELSE Awaiting(SendDispatch(request, domain))

\* Emails.send from its call to its await (or to an early return); reading
\* request.from of an undefined or null request raises a TypeError.
SendUntilAwait(request, domain) ==
  IF Nullish(request) THEN Thrown(TypeError)
  ELSE IF ValidateSend(request) # <<>>
  THEN Returned(Failure(ResendError(MissingField \o ValidateSend(request),
                                    ValidationErrorName, Undefined)))
  ELSE Awaiting(SendDispatch(request, domain))

\* A settled client promise
Resolved(response) == [kind |-> "resolve", response |-> response]
Rejected(err) == [kind |-> "reject", err |-> err]

\* Emails.send from the settling of the client promise to its return.
SendAfterAwait(settled, domain) ==
  IF settled.kind = "reject" THEN Thrown(settled.err)
  ELSE LET name == IF hasDomain(domain) THEN "transformDomainSendResponse"
                   ELSE "transformSendResponse"
           calls == <<Step(name, settled.response)>>
       IN IF SendResponseThrows(settled.response)
          THEN [kind |-> "throw", err |-> TypeError, calls |-> calls]
          ELSE [kind |-> "return",
                result |-> Success(IF hasDomain(domain)
                                   THEN transformDomainSendResponse(settled.response)
                                   ELSE transformSendResponse(settled.response)),
                calls |-> calls]

\* Emails.get from its call to its await (or to an early return).
GetUntilAwait(emailId) ==
  IF ~Truthy(emailId)
  THEN Returned(Failure(ResendError(MissingEmailId, ValidationErrorName,
                                    Undefined)))
  ELSE Awaiting(<<Step("getMessage", emailId)>>)

\* Emails.get from the settling of the client promise to its return.
GetAfterAwait(settled) ==
  IF settled.kind = "reject" THEN Thrown(settled.err)
  ELSE IF Nullish(settled.response) THEN Thrown(TypeError)
  ELSE LET message == Get(settled.response, "data")
           calls == <<Step("transformMessageToEmail", message)>>
       IN IF MessageToEmailThrows(message) # Undefined
          THEN [kind |-> "throw", err |-> MessageToEmailThrows(message),
                calls |-> calls]
          ELSE [kind |-> "return",
                result |-> Success(transformMessageToEmail(message)),
                calls |-> calls]

\* Emails.list from its call to its await: options?.limit is undefined for
\* undefined options.
ListUntilAwait(options) ==
  Awaiting(<<Step("listMessages", [limit |-> Get(options, "limit")])>>)

TransformStep(message) == Step("transformMessageToEmail", message)

\* Mutant: a message that cannot be converted is left out of the list.
ListAfterAwait_partial(settled) ==
  IF settled.kind = "reject" THEN Thrown(settled.err)
  ELSE IF Nullish(settled.response) THEN Thrown(TypeError)
  ELSE IF Get(settled.response, "data").t # "array" THEN Thrown(TypeError)
  ELSE LET data == Get(settled.response, "data").l
           Converts(m) == MessageToEmailThrows(m) = Undefined
       IN [kind |-> "return",
           result |-> Success([object |-> "list",
                               data |-> Map(transformMessageToEmail,
                                            SelectSeq(data, Converts))]),
           calls |-> Map(TransformStep, data)]

\* Emails.list from the settling of the client promise to its return:
\* response.data.map(transformMessageToEmail) stops at the first message that
\* throws.
ListAfterAwait(settled) ==
  IF settled.kind = "reject" THEN Thrown(settled.err)
  ELSE IF Nullish(settled.response) THEN Thrown(TypeError)
  ELSE IF Get(settled.response, "data").t # "array" THEN Thrown(TypeError)
  ELSE LET data == Get(settled.response, "data").l
           bad == {i \in 1..Len(data) : MessageToEmailThrows(data[i]) # Undefined}
       IN IF bad # {}
          THEN LET i == CHOOSE x \in bad : \A y \in bad : x <= y
               IN [kind |-> "throw", err |-> MessageToEmailThrows(data[i]),
                   calls |-> Map(TransformStep, SubSeq(data, 1, i))]
          ELSE [kind |-> "return",
                result |-> Success([object |-> "list",
                                    data |-> Map(transformMessageToEmail, data)]),
                calls |-> Map(TransformStep, data)]

\* The body of the facade method op from its call to its await.
UntilAwait(op, arg, domain) ==
  CASE op = "send" -> SendUntilAwait(arg, domain)
    [] op = "get" -> GetUntilAwait(arg)
    [] op = "list" -> ListUntilAwait(arg)

\* The body of the facade method op from the settling of its promise on.
AfterAwait(op, settled, domain) ==
  CASE op = "send" -> SendAfterAwait(settled, domain)
    [] op = "get" -> GetAfterAwait(settled)
    [] op = "list" -> ListAfterAwait(settled)

\* Mutant: the instance keeps one pending method in a field; a settling
\* promise resumes the earliest call that is still waiting.
Continuation_sharedSlot(i, calls) ==
  LET waiting == {j \in DOMAIN calls : calls[j].pc = "awaiting"}
  IN calls[CHOOSE j \in waiting : \A k \in waiting : j <= k].op

\* The method body a settling promise resumes: the one suspended at that
\* await, with its own locals.
Continuation(i, calls) == calls[i].op

\* ------------------------------------------------------------------------
\* The client's construction (client.ts) and the Resend class (index.ts)
\* ------------------------------------------------------------------------

DefaultBaseUrl == <<"h", "t", "t", "p", "s", ":", "/", "/", "a", "p", "i", ".", "u", "s", ".", "n", "y", "l", "a", "s", ".", "c", "o", "m">>

\* s.replace(/\/$/, '')
StripTrailingSlash(s) ==
  IF Len(s) > 0 /\ s[Len(s)] = "/" THEN SubSeq(s, 1, Len(s) - 1) ELSE s

\* new NylasClient(options): the fields of the instance; domain is Undefined
\* when not configured.
NewNylasClient(options) ==
  [apiKey |-> Get(options, "apiKey"),
   grantId |-> Get(options, "grantId"),
   domain |-> Get(options, "domain"),
   baseUrl |-> StripTrailingSlash(OrElse(Get(options, "baseUrl"),
                                         Str(DefaultBaseUrl)).s)]

\* createNylasClient(config)
createNylasClient(config) ==
  NewNylasClient(Present([apiKey |-> Get(config, "apiKey"),
                          grantId |-> Get(config, "grantId"),
                          domain |-> Get(config, "domain"),
                          baseUrl |-> Get(config, "baseUrl")]))

\* NylasClient.getGrantId
getGrantId(client) == client.grantId

GrantIdEnvRequired == <<"N", "Y", "L", "A", "S", "_", "G", "R", "A", "N", "T", "_", "I", "D", " ", "e", "n", "v", "i", "r", "o", "n", "m", "e", "n", "t", " ", "v", "a", "r", "i", "a", "b", "l", "e", " ", "i", "s", " ", "r", "e", "q", "u", "i", "r", "e", "d", " ", "w", "h", "e", "n", " ", "u", "s", "i", "n", "g", " ", "s", "t", "r", "i", "n", "g", " ", "A", "P", "I", " ", "k", "e", "y", ".", " ", "E", "i", "t", "h", "e", "r", " ", "s", "e", "t", " ", "t", "h", "e", " ", "e", "n", "v", "i", "r", "o", "n", "m", "e", "n", "t", " ", "v", "a", "r", "i", "a", "b", "l", "e", " ", "o", "r", " ", "p", "a", "s", "s", " ", "a", " ", "c", "o", "n", "f", "i", "g", " ", "o", "b", "j", "e", "c", "t", " ", "w", "i", "t", "h", " ", "{", " ", "a", "p", "i", "K", "e", "y", ",", " ", "g", "r", "a", "n", "t", "I", "d", " ", "}", ".">>
ApiKeyRequired == <<"a", "p", "i", "K", "e", "y", " ", "i", "s", " ", "r", "e", "q", "u", "i", "r", "e", "d">>
GrantIdRequired == <<"g", "r", "a", "n", "t", "I", "d", " ", "i", "s", " ", "r", "e", "q", "u", "i", "r", "e", "d">>

\* How the constructor ends: threw is the message of the Error (Undefined
\* when none is thrown), client the NylasClient made, emails the Emails
\* namespace over it.
Constructed(client) ==
  [threw |-> Undefined, client |-> client, emails |-> [client |-> client]]
ConstructorThrew(message) ==
  [threw |-> message, client |-> Undefined, emails |-> Undefined]

\* Mutant: the config object's grantId is checked before its apiKey.
ResendConstructor_grantIdFirst(config, env) ==
  IF config.t = "string"
  THEN LET grantId == Get(env, "NYLAS_GRANT_ID")
       IN IF ~Truthy(grantId) THEN ConstructorThrew(GrantIdEnvRequired)
          ELSE Constructed(createNylasClient(
                 Present([apiKey |-> config, grantId |-> grantId,
                          baseUrl |-> Get(env, "NYLAS_API_URL")])))
  ELSE IF ~Truthy(Get(config, "grantId")) THEN ConstructorThrew(GrantIdRequired)
  ELSE IF ~Truthy(Get(config, "apiKey")) THEN ConstructorThrew(ApiKeyRequired)
  ELSE Constructed(createNylasClient(config))

\* new Resend(config) with process.env = env
ResendConstructor(config, env) ==
  IF config.t = "string"
  THEN LET grantId == Get(env, "NYLAS_GRANT_ID")
       IN IF ~Truthy(grantId) THEN ConstructorThrew(GrantIdEnvRequired)
          ELSE Constructed(createNylasClient(
                 Present([apiKey |-> config, grantId |-> grantId,
                          baseUrl |-> Get(env, "NYLAS_API_URL")])))
  ELSE IF ~Truthy(Get(config, "apiKey")) THEN ConstructorThrew(ApiKeyRequired)
  ELSE IF ~Truthy(Get(config, "grantId")) THEN ConstructorThrew(GrantIdRequired)
  ELSE Constructed(createNylasClient(config))

\* ------------------------------------------------------------------------
\* JSON text (JSON.stringify and JSON.parse) and NylasClient.request
\* ------------------------------------------------------------------------

\* The property names of the bodies exchanged with the provider, as
\* characters.
JsonKeyChars ==
  [request_id |-> <<"r", "e", "q", "u", "e", "s", "t", "_", "i", "d">>,
   error |-> <<"e", "r", "r", "o", "r">>,
   type |-> <<"t", "y", "p", "e">>,
   message |-> <<"m", "e", "s", "s", "a", "g", "e">>,
   data |-> <<"d", "a", "t", "a">>,
   id |-> <<"i", "d">>,
   subject |-> <<"s", "u", "b", "j", "e", "c", "t">>,
   body |-> <<"b", "o", "d", "y">>,
   to |-> <<"t", "o">>,
   name |-> <<"n", "a", "m", "e">>,
   email |-> <<"e", "m", "a", "i", "l">>]

\* The order in which the properties are inserted into an object.
JsonKeyOrder == <<"request_id", "error", "type", "message", "data", "id", "subject", "body", "to", "name", "email">>

\* The property whose name is written by the characters.
JsonKey(chars) == CHOOSE k \in DOMAIN JsonKeyChars : JsonKeyChars[k] = chars

\* The parts joined by a separator.
RECURSIVE JsonJoin(_, _)
JsonJoin(parts, sep) ==
  IF Len(parts) = 0 THEN <<>>
  ELSE IF Len(parts) = 1 THEN parts[1]
  ELSE parts[1] \o sep \o JsonJoin(Tail(parts), sep)

\* A string between double quotes, with quotes, backslashes and line feeds
\* escaped.
JsonQuote(s) ==
  <<"\"">>
  \o JsonJoin([i \in 1..Len(s) |->
                 IF s[i] = "\"" THEN <<"\\", "\"">>
                 ELSE IF s[i] = "\\" THEN <<"\\", "\\">>
                 ELSE IF s[i] = "\n" THEN <<"\\", "n">>
                 ELSE <<s[i]>>], <<>>)
  \o <<"\"">>

\* JSON.stringify(v)
RECURSIVE JsonStringify(_)
JsonStringify(v) ==
  CASE v.t = "string" -> JsonQuote(v.s)
    [] v.t = "number" -> StringOf(v)
    [] v.t = "boolean" -> IF v.b THEN <<"t", "r", "u", "e">>
                          ELSE <<"f", "a", "l", "s", "e">>
    [] v.t = "array" ->
         <<"[">>
         \o JsonJoin([i \in 1..Len(v.l) |-> JsonStringify(v.l[i])], <<",">>)
         \o <<"]">>
    [] v.t = "record" ->
         LET Own(k) == k \in DOMAIN v.f /\ v.f[k] # Undefined
             keys == SelectSeq(JsonKeyOrder, Own)
         IN <<"{">>
            \o JsonJoin([i \in 1..Len(keys) |->
                           JsonQuote(JsonKeyChars[keys[i]]) \o <<":">>
                           \o JsonStringify(v.f[keys[i]])], <<",">>)
            \o <<"}">>
    [] OTHER -> <<"n", "u", "l", "l">>

\* The outcome of parsing from a position: the value read and the position
\* after it, or a syntax error.
JsonRead(value, next) == [ok |-> TRUE, value |-> value, next |-> next]
JsonSyntaxError == [ok |-> FALSE]

\* The first position from i on that holds no white space.
RECURSIVE JsonSkip(_, _)
JsonSkip(s, i) ==
  IF i <= Len(s) /\ s[i] \in {" ", "\n", "\t", "\r"} THEN JsonSkip(s, i + 1)
  ELSE i

\* s holds the word w at position i.
JsonHas(s, i, w) ==
  i + Len(w) - 1 <= Len(s) /\ SubSeq(s, i, i + Len(w) - 1) = w

\* The characters of a string literal whose opening quote is before i.
RECURSIVE JsonStringFrom(_, _, _)
JsonStringFrom(s, i, acc) ==
  IF i > Len(s) \/ s[i] \in {"\n", "\t", "\r"} THEN JsonSyntaxError
  ELSE IF s[i] = "\"" THEN JsonRead(acc, i + 1)
  ELSE IF s[i] = "\\"
  THEN IF i + 1 > Len(s) THEN JsonSyntaxError
       ELSE IF s[i + 1] \in {"\"", "\\", "/"}
       THEN JsonStringFrom(s, i + 2, Append(acc, s[i + 1]))
       ELSE IF s[i + 1] = "n" THEN JsonStringFrom(s, i + 2, Append(acc, "\n"))
       ELSE IF s[i + 1] = "t" THEN JsonStringFrom(s, i + 2, Append(acc, "\t"))
       ELSE IF s[i + 1] = "r" THEN JsonStringFrom(s, i + 2, Append(acc, "\r"))
       ELSE JsonSyntaxError
  ELSE JsonStringFrom(s, i + 1, Append(acc, s[i]))

\* The last position of the run of digits that starts at i (i - 1 when
\* there is none).
RECURSIVE JsonDigitsEnd(_, _)
JsonDigitsEnd(s, i) ==
  IF i <= Len(s) /\ s[i] \in {DigitChars[d] : d \in 1..10}
  THEN JsonDigitsEnd(s, i + 1) ELSE i - 1

\* An integer literal at i: an optional minus sign, then digits without a
\* leading zero.
JsonNumberAt(s, i) ==
  LET from == IF i <= Len(s) /\ s[i] = "-" THEN i + 1 ELSE i
      to == JsonDigitsEnd(s, from)
  IN IF to < from \/ (s[from] = "0" /\ to > from) THEN JsonSyntaxError
     ELSE JsonRead(Num(IF from > i THEN 0 - DigitsValue(s, from, to)
                       ELSE DigitsValue(s, from, to)), to + 1)

RECURSIVE JsonValueAt(_, _), JsonElements(_, _, _), JsonMembers(_, _, _)

\* The value that starts at position i.
JsonValueAt(s, i) ==
  IF i > Len(s) THEN JsonSyntaxError
  ELSE IF JsonHas(s, i, <<"n", "u", "l", "l">>) THEN JsonRead(Null, i + 4)
  ELSE IF JsonHas(s, i, <<"t", "r", "u", "e">>) THEN JsonRead(Bool(TRUE), i + 4)
  ELSE IF JsonHas(s, i, <<"f", "a", "l", "s", "e">>)
  THEN JsonRead(Bool(FALSE), i + 5)
  ELSE IF s[i] = "\""
  THEN LET r == JsonStringFrom(s, i + 1, <<>>)
       IN IF r.ok THEN JsonRead(Str(r.value), r.next) ELSE r
  ELSE IF s[i] = "["
  THEN LET j == JsonSkip(s, i + 1)
       IN IF j <= Len(s) /\ s[j] = "]" THEN JsonRead(List(<<>>), j + 1)
          ELSE JsonElements(s, j, <<>>)
  ELSE IF s[i] = "{"
  THEN LET j == JsonSkip(s, i + 1)
       IN IF j <= Len(s) /\ s[j] = "}" THEN JsonRead(Rec(<<>>), j + 1)
          ELSE JsonMembers(s, j, <<>>)
  ELSE JsonNumberAt(s, i)

\* The elements of an array from position i, after those of acc.
JsonElements(s, i, acc) ==
  LET r == JsonValueAt(s, i)
  IN IF ~r.ok THEN r
     ELSE LET j == JsonSkip(s, r.next)
              l == Append(acc, r.value)
          IN IF j > Len(s) THEN JsonSyntaxError
             ELSE IF s[j] = "]" THEN JsonRead(List(l), j + 1)
             ELSE IF s[j] = "," THEN JsonElements(s, JsonSkip(s, j + 1), l)
             ELSE JsonSyntaxError

\* The members of an object from position i, after those of acc; a name
\* given twice keeps its last value.
JsonMembers(s, i, acc) ==
  IF i > Len(s) \/ s[i] # "\"" THEN JsonSyntaxError
  ELSE LET k == JsonStringFrom(s, i + 1, <<>>)
       IN IF ~k.ok THEN k
          ELSE LET c == JsonSkip(s, k.next)
               IN IF c > Len(s) \/ s[c] # ":" THEN JsonSyntaxError
                  ELSE LET r == JsonValueAt(s, JsonSkip(s, c + 1))
                       IN IF ~r.ok THEN r
                          ELSE LET j == JsonSkip(s, r.next)
                                   name == JsonKey(k.value)
                                   f == [x \in DOMAIN acc \cup {name} |->
                                           IF x = name THEN r.value
                                           ELSE acc[x]]
                               IN IF j > Len(s) THEN JsonSyntaxError
                                  ELSE IF s[j] = "}"
                                  THEN JsonRead(Rec(f), j + 1)
                                  ELSE IF s[j] = ","
                                  THEN JsonMembers(s, JsonSkip(s, j + 1), f)
                                  ELSE JsonSyntaxError

\* JSON.parse(text): the value, or a SyntaxError when the text is not one
\* JSON value.
JsonParse(text) ==
  LET r == JsonValueAt(text, JsonSkip(text, 1))
  IN IF r.ok /\ JsonSkip(text, r.next) > Len(text) THEN r
     ELSE JsonSyntaxError

ApiVersion == <<"v", "3">>

\* s.substring(0, n)
Substring0(s, n) == IF Len(s) > n THEN SubSeq(s, 1, n) ELSE s

\* response.ok
ResponseOk(status) == status >= 200 /\ status <= 299

\* NylasClient.request up to the call of fetch: the URL and the options
\* given to it.
RequestUntilFetch(client, method, path, body) ==
  [url |-> client.baseUrl \o <<"/">> \o ApiVersion \o path,
   method |-> method,
   headers |->
     IF Truthy(body)
     THEN [Authorization |-> <<"B", "e", "a", "r", "e", "r", " ">> \o client.apiKey.s,
           Accept |-> <<"a", "p", "p", "l", "i", "c", "a", "t", "i", "o", "n", "/", "j", "s", "o", "n">>,
           ContentType |-> <<"a", "p", "p", "l", "i", "c", "a", "t", "i", "o", "n", "/", "j", "s", "o", "n">>]
     ELSE [Authorization |-> <<"B", "e", "a", "r", "e", "r", " ">> \o client.apiKey.s,
           Accept |-> <<"a", "p", "p", "l", "i", "c", "a", "t", "i", "o", "n", "/", "j", "s", "o", "n">>],
   body |-> IF Truthy(body) THEN Str(JsonStringify(body)) ELSE Undefined]

\* error.error?.k
ErrorProperty(responseData, k) ==
  LET error == Get(responseData, "error")
  IN IF Nullish(error) THEN Undefined ELSE Get(error, k)

\* NylasClient.request once fetch has answered with a status and a body
\* text.
RequestAfterFetch(status, responseText) ==
  LET parsed == JsonParse(responseText)
  IN IF ~parsed.ok
     THEN Thrown(NylasRequestError(
            <<"I", "n", "v", "a", "l", "i", "d", " ", "J", "S", "O", "N", " ", "r", "e", "s", "p", "o", "n", "s", "e", ":", " ">> \o Substring0(responseText, 100),
            Num(status), Undefined, Undefined))
     ELSE IF ~ResponseOk(status)
     THEN IF Nullish(parsed.value) THEN Thrown(TypeError)
          ELSE Thrown(NylasRequestError(
                 OrElse(ErrorProperty(parsed.value, "message"),
                        Str(<<"R", "e", "q", "u", "e", "s", "t", " ", "f", "a", "i", "l", "e", "d", " ", "w", "i", "t", "h", " ", "s", "t", "a", "t", "u", "s", " ">> \o StringOf(Num(status)))).s,
                 Num(status),
                 ErrorProperty(parsed.value, "type"),
                 Get(parsed.value, "request_id")))
     ELSE Returned(parsed.value)

\* ------------------------------------------------------------------------
\* Arguments of the model
\* ------------------------------------------------------------------------

AddrBare == <<"a", "@", "x">>
AddrNamed == <<"N", " ", "<", "b", "@", "x", ">", " ">>
Subject == <<"S">>

AttString ==
  [filename |-> <<"f">>, content |-> Str(<<"S", "G", "k", "=">>),
   contentType |-> Str(<<"t">>), contentId |-> Undefined]
AttBuffer ==
  [filename |-> <<"g">>, content |-> Buf(<<72, 105>>),
   contentType |-> Undefined, contentId |-> Str(<<"c">>)]

\* An attachment given by path, with empty contentType and contentId.
AttPath ==
  [filename |-> <<"p">>, content |-> Undefined,
   contentType |-> Str(<<>>), contentId |-> Str(<<>>)]

RecipientValues ==
  {Str(<<>>), Str(AddrBare), List(<<>>), List(<<AddrNamed, AddrBare>>)}

OptionalFields ==
  {"text", "html", "cc", "bcc", "replyTo", "headers", "tags", "attachments",
   "scheduledAt"}

\* The values a caller gives an optional field of SendEmailRequest.
OptionalValues(f) ==
  CASE f = "text" -> {Str(<<>>), Str(<<"t">>)}
    [] f = "html" -> {Str(<<>>), Str(<<"h">>)}
    [] f \in {"cc", "bcc", "replyTo"} -> RecipientValues
    [] f = "headers" -> {Obj(0), Obj(1)}
    [] f = "tags" -> {List(<<>>), List(<<"tag">>)}
    [] f = "attachments" ->
         {List(<<>>), List(<<AttString>>), List(<<AttBuffer, AttString>>),
          List(<<AttPath>>)}
    [] f = "scheduledAt" ->
         {Str(<<>>), Str(DateEpoch), Str(DateSecondDay), Str(DateHalfSecond),
          Str(DateBefore1970), Str(DateInvalid), Str(DateBadMonth)}

\* A SendEmailRequest with the required fields only.
MinimalRequest(from, to, subject) ==
  [from |-> from, to |-> to, subject |-> subject,
   text |-> Undefined, html |-> Undefined, replyTo |-> Undefined,
   cc |-> Undefined, bcc |-> Undefined, headers |-> Undefined,
   attachments |-> Undefined, tags |-> Undefined, scheduledAt |-> Undefined]

NumOptional(request) ==
  Cardinality({f \in OptionalFields : request[f] # Undefined})

\* Provider participants and attachments of a webhook message.
SenderNamed == Participant(Str(<<"N">>), <<"b", "@", "x">>)
SenderBare == Participant(Undefined, <<"a", "@", "x">>)
MessageAttachment ==
  [id |-> <<"1">>, grant_id |-> <<"g">>, filename |-> <<"f">>,
   content_type |-> <<"t">>, size |-> 7]
MessageAttachmentInline ==
  [id |-> <<"2">>, grant_id |-> <<"g">>, filename |-> <<"i">>,
   content_type |-> <<"u">>, size |-> 0, content_id |-> <<"c">>,
   is_inline |-> TRUE]

\* The values found as data.object: values that are not objects, an array,
\* and message objects with any of their lists absent or malformed.
MessageValues ==
  {Undefined, Null, Str(<<"m">>), Num(1), List(<<>>)}
  \cup
  {Present([id |-> Str(<<"i">>), subject |-> Str(Subject),
            body |-> Str(<<"h">>), date |-> date, from |-> from,
            to |-> to, cc |-> cc, reply_to |-> replyTo,
            attachments |-> att]) :
     date \in {Undefined, Num(5)},
     from \in {Undefined, Null, List(<<>>), List(<<SenderBare>>),
               List(<<SenderNamed, SenderBare>>)},
     to \in {Undefined, List(<<SenderNamed, SenderBare>>), Str(<<"x">>)},
     cc \in {Undefined, List(<<SenderBare>>)},
     replyTo \in {Undefined, Null, List(<<SenderNamed>>)},
     att \in {Undefined, Null, List(<<>>), List(<<MessageAttachment>>),
              List(<<MessageAttachmentInline, MessageAttachment>>),
              Str(<<"x">>)}}

DataValues ==
  {Undefined, Null, Str(<<"d">>), Rec(<<>>)}
  \cup {Rec([object |-> m]) : m \in MessageValues}

TypeValues ==
  {Undefined, Null, Num(1), Str(MessageCreated),
   Str(<<"M", "e", "s", "s", "a", "g", "e", ".", "C", "r", "e", "a", "t", "e", "d">>),
   Str(<<"g", "r", "a", "n", "t", ".", "u", "p", "d", "a", "t", "e", "d">>)}

\* The values handed to handleInboundWebhook.
PayloadValues ==
  {Undefined, Null, Str(<<"p">>), Num(123), List(<<>>), Rec(<<>>)}
  \cup {Present([type |-> ty, data |-> d, time |-> tm]) :
          ty \in TypeValues, d \in DataValues,
          tm \in {Undefined, Str(<<"T">>)}}

\* The arguments of Emails.send: no object at all, or a request with any of
\* its required fields missing or empty.
SendArguments ==
  {Undefined, Null}
  \cup
  {Rec([MinimalRequest(from, to, subject)
          EXCEPT !.html = html, !.text = text, !.cc = cc, !.replyTo = replyTo]) :
     from \in {Undefined, Str(<<>>), Str(AddrNamed)},
     to \in {Undefined, Str(<<>>), List(<<>>), Str(AddrBare),
             List(<<AddrNamed, AddrBare>>)},
     subject \in {Undefined, Str(<<>>), Str(Subject)},
     html \in {Undefined, Str(<<"h">>)},
     text \in {Undefined, Str(<<"t">>)},
     cc \in {Undefined, List(<<>>), Str(AddrBare)},
     replyTo \in {Undefined, Str(AddrBare)}}

GetArguments == {Undefined, Str(<<>>), Str(<<"i", "d">>)}

ListArguments == {Undefined, Rec(<<>>), Rec([limit |-> Num(5)])}

\* Provider messages in the client's responses, some without the from list
\* or the date.
ProviderMessages ==
  {Present([id |-> Str(<<"i">>), grant_id |-> Str(<<"g">>),
            subject |-> Str(Subject), body |-> Str(<<"h">>),
            from |-> from, to |-> to, cc |-> others.cc, bcc |-> others.bcc,
            reply_to |-> others.reply_to, date |-> date]) :
     from \in {Undefined, List(<<>>), List(<<SenderNamed>>)},
     to \in {Undefined, List(<<SenderBare, SenderNamed>>)},
     others \in {[cc |-> Undefined, bcc |-> Undefined, reply_to |-> Undefined],
                 [cc |-> List(<<SenderNamed>>), bcc |-> List(<<SenderBare>>),
                  reply_to |-> List(<<SenderNamed, SenderBare>>)]},
     date \in {Undefined, Num(90061)}}

\* Sequences of at most n elements of S
RECURSIVE SeqsUpTo(_, _)
SeqsUpTo(S, n) ==
  IF n = 0 THEN {<<>>}
  ELSE SeqsUpTo(S, n - 1)
       \cup {Append(l, x) : l \in {q \in SeqsUpTo(S, n - 1) : Len(q) = n - 1},
                            x \in S}

\* What the client's promise resolves to, by method.
Responses(op) ==
  CASE op = "send" ->
         {Rec([request_id |-> Str(<<"r">>),
               data |-> Rec([id |-> Str(<<"m">>)])]),
          Rec(<<>>)}
    [] op = "get" ->
         {Undefined} \cup {Rec([data |-> m]) : m \in ProviderMessages}
    [] op = "list" ->
         {Rec(<<>>)}
         \cup {Rec([data |-> List(l)]) : l \in SeqsUpTo(ProviderMessages, MaxListed)}

\* What the client's promise rejects with: request errors with and without
\* an error type, another Error, and values that are not errors.
Rejections ==
  {NylasRequestError(<<"A", "P", "I", " ", "e", "r", "r", "o", "r">>, Num(500), Str(<<"s", "e", "r", "v", "e", "r", "_", "e", "r", "r", "o", "r">>), Undefined),
   NylasRequestError(<<"N", "o", "t", " ", "f", "o", "u", "n", "d">>, Num(404), Undefined, Undefined),
   NylasRequestError(<<"B", "a", "d">>, Num(400), Str(<<>>), Undefined),
   Error(<<"E", "r", "r", "o", "r">>, <<"N", "e", "t", "w", "o", "r", "k", " ", "e", "r", "r", "o", "r">>),
   Str(<<"s", "t", "r", "i", "n", "g", " ", "e", "r", "r", "o", "r">>), Num(42), Undefined, Null,
   Rec([custom |-> Str(<<"e", "r", "r", "o", "r">>)])}

\* ------------------------------------------------------------------------
\* State
\* ------------------------------------------------------------------------

VARIABLES
  request,    \* the SendEmailRequest handed to a transformer
  tphase,     \* "args": the caller is building request; "returned"
  variant,    \* which transformer ran: "grant", "domain" or "none"
  wire,       \* the wire request the transformer returned
  warnings    \* the console.warn calls it made, in order

tvars == <<request, tphase, variant, wire, warnings>>

VARIABLES
  payload,    \* the value handed to handleInboundWebhook
  wphase,     \* "received": the call has not run; "returned"
  woutcome,   \* how the call ended: "null", "event" or "throw"
  event       \* the event it returned

wvars == <<payload, wphase, woutcome, event>>

VARIABLES
  domain,     \* NylasClient.domain, Undefined when not configured
  ecall,      \* the facade call: [op |-> "send" | "get" | "list", arg |-> ...]
  epc,        \* "called", "awaiting" (suspended at the client call),
              \* "returned" (promise fulfilled) or "rejected"
  elog,       \* the transformer and client calls made so far, in order
  esettled,   \* how the client promise settled, Undefined before
  eresult     \* the {data, error} the call resolved to

evars == <<domain, ecall, epc, elog, esettled, eresult>>

VARIABLES
  pname,      \* the display name, or the first string of the caller
  pemail,     \* the address, or the second string of the caller
  pphase,     \* "args", then the function that ran: "parsed", "roundtrip"
              \* or "participants"
  pinput,     \* the argument of the call
  pout        \* what the call returned

pvars == <<pname, pemail, pphase, pinput, pout>>

VARIABLES
  cdomain,    \* NylasClient.domain of the instance the concurrent calls share
  ccalls,     \* per call: its method, argument, position ("idle", "awaiting"
              \* or "returned"), how its promise settled and its result
  cbetween,   \* what the last transformer call made in between returned
  clog        \* the transport's requests and settlements, in order

cvars == <<cdomain, ccalls, cbetween, clog>>

VARIABLES
  rconfig,    \* the argument of new Resend(...)
  renv,       \* process.env: NYLAS_GRANT_ID and NYLAS_API_URL
  rphase,     \* "new", then "constructed" or "threw"
  rthrown,    \* the message of the Error the constructor threw
  rinstance,  \* the instance: its client's options and whether emails is set
  rgrant      \* what getGrantId() returned, Undefined before it is called

rvars == <<rconfig, renv, rphase, rthrown, rinstance, rgrant>>

VARIABLES
  vargs,      \* payload, signature and secret of the last verification
  vcalls,     \* the number of calls of verifyWebhookSignature so far
  vresult,    \* what the last call returned
  vwarned     \* the number of console.warn calls so far

vvars == <<vargs, vcalls, vresult, vwarned>>

VARIABLES
  qcall,      \* method, path and body of NylasClient.request
  qfetch,     \* what fetch settles with: a response or a rejection
  qphase,     \* "called", "fetching" (suspended at fetch) or "settled"
  qsent,      \* the url, method, headers and body handed to fetch
  qoutcome    \* how the promise of request settled

qvars == <<qcall, qfetch, qphase, qsent, qoutcome>>

VARIABLES
  ffun,       \* the transformer called
  fgiven,     \* its argument as the caller built it
  farg,       \* the argument object as it is now
  fphase,     \* "args", "once" (called) or "twice" (called again)
  fout,       \* what the first call returned
  fagain      \* what the second call returned

fvars == <<ffun, fgiven, farg, fphase, fout, fagain>>

\* The state of the specifications added after the first four.
xvars == <<cvars, rvars, vvars, qvars, fvars>>

vars == <<tvars, wvars, evars, pvars, xvars>>

\* No facade call in this behaviour.
EmailsIdle ==
  /\ domain = Undefined
  /\ ecall = Undefined
  /\ epc = "idle"
  /\ elog = <<>>
  /\ esettled = Undefined
  /\ eresult = Undefined

\* No transformer call in this behaviour.
TransformIdle ==
  /\ request = Undefined
  /\ tphase = "idle"
  /\ variant = "none"
  /\ wire = Undefined
  /\ warnings = <<>>

\* No call of an address function in this behaviour.
ParserIdle ==
  /\ pname = <<>>
  /\ pemail = <<>>
  /\ pphase = "idle"
  /\ pinput = Undefined
  /\ pout = Undefined

\* No concurrent calls in this behaviour.
CallsIdle ==
  /\ cdomain = Undefined
  /\ ccalls = <<>>
  /\ cbetween = Undefined
  /\ clog = <<>>

\* No Resend instance is constructed in this behaviour.
ResendIdle ==
  /\ rconfig = Undefined
  /\ renv = Undefined
  /\ rphase = "idle"
  /\ rthrown = Undefined
  /\ rinstance = Undefined
  /\ rgrant = Undefined

\* No signature verification in this behaviour.
VerifyIdle ==
  /\ vargs = Undefined
  /\ vcalls = 0
  /\ vresult = Undefined
  /\ vwarned = 0

\* No client request in this behaviour.
RequestIdle ==
  /\ qcall = Undefined
  /\ qfetch = Undefined
  /\ qphase = "idle"
  /\ qsent = Undefined
  /\ qoutcome = Undefined

\* No argument is watched in this behaviour.
FrameIdle ==
  /\ ffun = "none"
  /\ fgiven = Undefined
  /\ farg = Undefined
  /\ fphase = "idle"
  /\ fout = Undefined
  /\ fagain = Undefined

\* No webhook call in this behaviour.
WebhookIdle ==
  /\ payload = Undefined
  /\ wphase = "idle"
  /\ woutcome = "none"
  /\ event = Undefined

\* ------------------------------------------------------------------------
\* The send transformers called directly
\* ------------------------------------------------------------------------

InitTransform ==
  /\ \E from \in {Str(<<>>), Str(AddrBare), Str(AddrNamed)} :
     \E to \in {Str(AddrBare), List(<<AddrBare, AddrNamed>>), List(<<>>)} :
       request = MinimalRequest(from, to, Str(Subject))
  /\ tphase = "args"
  /\ variant = "none"
  /\ wire = Undefined
  /\ warnings = <<>>
  /\ WebhookIdle
  /\ EmailsIdle
  /\ ParserIdle
  /\ CallsIdle
  /\ ResendIdle
  /\ VerifyIdle
  /\ RequestIdle
  /\ FrameIdle

\* The caller sets one more optional field of the request.
SetOptionalField ==
  /\ tphase = "args"
  /\ NumOptional(request) < MaxOptionalFields
  /\ \E f \in OptionalFields :
       /\ request[f] = Undefined
       /\ \E v \in OptionalValues(f) : request' = [request EXCEPT ![f] = v]
  /\ UNCHANGED <<tphase, variant, wire, warnings, wvars, evars, pvars, xvars>>

CallTransformSendRequest ==
  /\ tphase = "args"
  /\ tphase' = "returned"
  /\ variant' = "grant"
  /\ wire' = transformSendRequest(request)
  /\ warnings' = SendRequestWarnings(request)
  /\ UNCHANGED <<request, wvars, evars, pvars, xvars>>

CallTransformDomainSendRequest ==
  /\ tphase = "args"
  /\ tphase' = "returned"
  /\ variant' = "domain"
  /\ wire' = transformDomainSendRequest(request)
  /\ warnings' = DomainSendRequestWarnings(request)
  /\ UNCHANGED <<request, wvars, evars, pvars, xvars>>

NextTransform ==
  \/ SetOptionalField
  \/ CallTransformSendRequest
  \/ CallTransformDomainSendRequest

SpecTransform == InitTransform /\ [][NextTransform]_vars

\* ------------------------------------------------------------------------
\* The send transformers called with any combination of the fields they
\* warn about
\* ------------------------------------------------------------------------

WarnedFields == {"headers", "tags", "attachments", "scheduledAt", "replyTo"}

InitWarnings ==
  /\ \E headers \in {Undefined} \cup OptionalValues("headers") :
     \E tags \in {Undefined} \cup OptionalValues("tags") :
     \E attachments \in {Undefined} \cup OptionalValues("attachments") :
     \E scheduledAt \in {Undefined} \cup OptionalValues("scheduledAt") :
     \E replyTo \in {Undefined} \cup OptionalValues("replyTo") :
       request = [MinimalRequest(Str(AddrBare), Str(AddrBare), Str(Subject))
                    EXCEPT !.headers = headers, !.tags = tags,
                           !.attachments = attachments,
                           !.scheduledAt = scheduledAt, !.replyTo = replyTo]
  /\ tphase = "args"
  /\ variant = "none"
  /\ wire = Undefined
  /\ warnings = <<>>
  /\ WebhookIdle
  /\ EmailsIdle
  /\ ParserIdle
  /\ CallsIdle
  /\ ResendIdle
  /\ VerifyIdle
  /\ RequestIdle
  /\ FrameIdle

NextWarnings ==
  \/ CallTransformSendRequest
  \/ CallTransformDomainSendRequest

SpecWarnings == InitWarnings /\ [][NextWarnings]_vars

\* ------------------------------------------------------------------------
\* Concurrent calls on one Emails instance
\* ------------------------------------------------------------------------

Calls == 1..MaxCalls

ConcurrentMessage ==
  Present([id |-> Str(<<"i">>), subject |-> Str(Subject),
           body |-> Str(<<"h">>), from |-> List(<<SenderNamed>>),
           to |-> List(<<SenderBare>>), date |-> Num(90061)])

\* Arguments of the concurrent calls, by method.
ConcurrentArguments(op) ==
  CASE op = "send" ->
         {Rec(MinimalRequest(Str(AddrNamed), Str(AddrBare), Str(Subject))),
          Rec(MinimalRequest(Str(<<>>), Str(AddrBare), Str(Subject)))}
    [] op = "get" -> {Str(<<>>), Str(<<"i", "d">>)}
    [] op = "list" -> {Undefined}

\* What the transport settles a promise with: an acknowledgement, a message
\* or an error.
ConcurrentSettlements ==
  {Resolved(Rec([request_id |-> Str(<<"r">>),
                 data |-> Rec([id |-> Str(<<"m">>)])])),
   Resolved(Rec([data |-> ConcurrentMessage])),
   Rejected(NylasRequestError(<<"N", "o", "t", " ", "f", "o", "u", "n", "d">>, Num(404), Undefined, Undefined))}

IdleCall ==
  [op |-> "none", arg |-> Undefined, pc |-> "idle", settled |-> Undefined,
   result |-> Undefined]

InitConcurrent ==
  /\ cdomain \in {Undefined, Str(<<"d">>)}
  /\ ccalls = [i \in Calls |-> IdleCall]
  /\ cbetween = Undefined
  /\ clog = <<>>
  /\ TransformIdle
  /\ WebhookIdle
  /\ EmailsIdle
  /\ ParserIdle
  /\ ResendIdle
  /\ VerifyIdle
  /\ RequestIdle
  /\ FrameIdle

\* Call i of method op runs to its await, or to an early return.
Starts(i, op) ==
  /\ ccalls[i].pc = "idle"
  /\ \E arg \in ConcurrentArguments(op) :
       LET c == Catch(UntilAwait(op, arg, cdomain))
       IN /\ ccalls' = [ccalls EXCEPT ![i] =
                          [op |-> op, arg |-> arg,
                           pc |-> IF c.kind = "await" THEN "awaiting"
                                  ELSE "returned",
                           settled |-> Undefined,
                           result |-> IF c.kind = "return" THEN c.result
                                      ELSE Undefined]]
          /\ clog' = IF c.kind = "await"
                     THEN Append(clog, [ev |-> "request", call |-> i])
                     ELSE clog
  /\ UNCHANGED <<cdomain, cbetween, tvars, wvars, evars, pvars, rvars, vvars,
                 qvars, fvars>>

ConcurrentSend == \E i \in Calls : Starts(i, "send")
ConcurrentGet == \E i \in Calls : Starts(i, "get")
ConcurrentList == \E i \in Calls : Starts(i, "list")

\* The promise of a waiting call settles and its method body runs to its
\* return.
ConcurrentResumes ==
  \E i \in Calls :
    /\ ccalls[i].pc = "awaiting"
    /\ \E settled \in ConcurrentSettlements :
         /\ ccalls' = [ccalls EXCEPT ![i] =
                         [@ EXCEPT !.pc = "returned", !.settled = settled,
                                   !.result =
                                     Catch(AfterAwait(Continuation(i, ccalls),
                                                      settled, cdomain)).result]]
         /\ clog' = Append(clog, [ev |-> "settle", call |-> i])
    /\ UNCHANGED <<cdomain, cbetween, tvars, wvars, evars, pvars, rvars,
                   vvars, qvars, fvars>>

\* Some other caller runs a transformer while calls are waiting.
TransformerInBetween ==
  /\ \E i \in Calls : ccalls[i].pc = "awaiting"
  /\ cbetween' = transformMessageToEmail(ConcurrentMessage)
  /\ UNCHANGED <<cdomain, ccalls, clog, tvars, wvars, evars, pvars, rvars,
                 vvars, qvars, fvars>>

NextConcurrent ==
  \/ ConcurrentSend
  \/ ConcurrentGet
  \/ ConcurrentList
  \/ ConcurrentResumes
  \/ TransformerInBetween

SpecConcurrent == InitConcurrent /\ [][NextConcurrent]_vars

\* ------------------------------------------------------------------------
\* The construction of a Resend instance
\* ------------------------------------------------------------------------

\* The arguments of new Resend: an API key, or a config object with any of
\* its fields absent or empty.
ResendConfigs ==
  {Str(<<>>), Str(<<"k">>)}
  \cup {Present([apiKey |-> apiKey, grantId |-> grantId, domain |-> dom,
                 baseUrl |-> baseUrl]) :
          apiKey \in {Undefined, Str(<<>>), Str(<<"k">>)},
          grantId \in {Undefined, Str(<<>>), Str(<<"g">>)},
          dom \in {Undefined, Str(<<"d">>)},
          baseUrl \in {Undefined, Str(<<"u", "/">>)}}

\* process.env
Environments ==
  {Present([NYLAS_GRANT_ID |-> grantId, NYLAS_API_URL |-> url]) :
     grantId \in {Undefined, Str(<<>>), Str(<<"e">>)},
     url \in {Undefined, Str(<<"v">>)}}

InitResend ==
  /\ rconfig \in ResendConfigs
  /\ renv \in Environments
  /\ rphase = "new"
  /\ rthrown = Undefined
  /\ rinstance = Undefined
  /\ rgrant = Undefined
  /\ TransformIdle
  /\ WebhookIdle
  /\ EmailsIdle
  /\ ParserIdle
  /\ CallsIdle
  /\ VerifyIdle
  /\ RequestIdle
  /\ FrameIdle

NewResend ==
  /\ rphase = "new"
  /\ LET r == ResendConstructor(rconfig, renv)
     IN /\ rphase' = IF r.threw = Undefined THEN "constructed" ELSE "threw"
        /\ rthrown' = r.threw
        /\ rinstance' = IF r.threw = Undefined
                        THEN [client |-> r.client, emails |-> r.emails]
                        ELSE Undefined
  /\ UNCHANGED <<rconfig, renv, rgrant, tvars, wvars, evars, pvars, cvars,
                 vvars, qvars, fvars>>

\* resend.getGrantId()
ResendGetGrantId ==
  /\ rphase = "constructed"
  /\ rgrant = Undefined
  /\ rgrant' = getGrantId(rinstance.client)
  /\ UNCHANGED <<rconfig, renv, rphase, rthrown, rinstance, tvars, wvars,
                 evars, pvars, cvars, vvars, qvars, fvars>>

NextResend ==
  \/ NewResend
  \/ ResendGetGrantId

SpecResend == InitResend /\ [][NextResend]_vars

\* ------------------------------------------------------------------------
\* Webhook signature verification
\* ------------------------------------------------------------------------

VerificationNotImplemented == <<"n", "y", "l", "a", "s", "-", "r", "e", "s", "e", "n", "d", ":", " ", "W", "e", "b", "h", "o", "o", "k", " ", "s", "i", "g", "n", "a", "t", "u", "r", "e", " ", "v", "e", "r", "i", "f", "i", "c", "a", "t", "i", "o", "n", " ", "n", "o", "t", " ", "i", "m", "p", "l", "e", "m", "e", "n", "t", "e", "d", ".", " ", "V", "e", "r", "i", "f", "y", " ", "w", "e", "b", "h", "o", "o", "k", "s", " ", "u", "s", "i", "n", "g", " ", "N", "y", "l", "a", "s", " ", "S", "D", "K", " ", "o", "r", " ", "i", "m", "p", "l", "e", "m", "e", "n", "t", " ", "H", "M", "A", "C", "-", "S", "H", "A", "2", "5", "6", " ", "v", "e", "r", "i", "f", "i", "c", "a", "t", "i", "o", "n", ".">>

\* Mutant: the signature is compared with the secret, and nothing is logged
\* when they agree.
verifyWebhookSignature_compares(rawPayload, signature, secret) ==
  [result |-> signature = secret,
   warned |-> IF signature = secret THEN <<>>
              ELSE <<VerificationNotImplemented>>]

\* verifyWebhookSignature(_payload, _signature, _secret): the value returned
\* and the messages given to console.warn.
verifyWebhookSignature(rawPayload, signature, secret) ==
  [result |-> TRUE, warned |-> <<VerificationNotImplemented>>]

VerifyPayloads ==
  {<<>>, <<"p">>, <<"{", "}">>, <<"{", "\"", "a", "\"", ":", "1", "}">>,
   <<"n", "u", "l", "l">>}
VerifySignatures == {<<>>, <<"s">>, <<"t">>, <<"s", "t">>, <<"0">>}
VerifySecrets == {<<>>, <<"s">>, <<"t">>, <<"s", "t">>, <<"k">>}

InitVerify ==
  /\ vargs = Undefined
  /\ vcalls = 0
  /\ vresult = Undefined
  /\ vwarned = 0
  /\ TransformIdle
  /\ WebhookIdle
  /\ EmailsIdle
  /\ ParserIdle
  /\ CallsIdle
  /\ ResendIdle
  /\ RequestIdle
  /\ FrameIdle

VerifyWebhookSignature ==
  /\ vcalls < MaxVerifyCalls
  /\ \E rawPayload \in VerifyPayloads, signature \in VerifySignatures,
        secret \in VerifySecrets :
       LET r == verifyWebhookSignature(rawPayload, signature, secret)
       IN /\ vargs' = [payload |-> rawPayload, signature |-> signature,
                       secret |-> secret]
          /\ vcalls' = vcalls + 1
          /\ vresult' = r.result
          /\ vwarned' = vwarned + Len(r.warned)
  /\ UNCHANGED <<tvars, wvars, evars, pvars, cvars, rvars, qvars, fvars>>

NextVerify == VerifyWebhookSignature

SpecVerify == InitVerify /\ [][NextVerify]_vars

\* ------------------------------------------------------------------------
\* A request of the client
\* ------------------------------------------------------------------------

\* `/grants/${this.grantId}`
grantPath(client) == <<"/", "g", "r", "a", "n", "t", "s", "/">> \o client.grantId.s

\* The arguments sendMessage gives to request.
sendMessage(client, data) ==
  [method |-> "POST",
   path |-> grantPath(client) \o <<"/", "m", "e", "s", "s", "a", "g", "e", "s", "/", "s", "e", "n", "d">>,
   body |-> data]

\* The arguments getMessage gives to request.
getMessage(client, messageId) ==
  [method |-> "GET",
   path |-> grantPath(client) \o <<"/", "m", "e", "s", "s", "a", "g", "e", "s", "/">> \o messageId,
   body |-> Undefined]

RequestClients ==
  {NewNylasClient(Present([apiKey |-> Str(<<"k">>), grantId |-> Str(<<"g">>),
                           baseUrl |-> baseUrl])) :
     baseUrl \in {Undefined, Str(<<"u", "/">>)}}

RequestBodies ==
  {Rec([subject |-> Str(<<"S">>), body |-> Str(<<"\"", "B", "\"">>),
        to |-> List(<<Rec([email |-> Str(<<"a", "@", "x">>)])>>)]),
   Rec([subject |-> Str(<<"S">>), body |-> Str(<<>>),
        to |-> List(<<Rec([name |-> Str(<<"N">>),
                           email |-> Str(<<"a", "@", "x">>)]),
                      Rec([email |-> Str(<<"b", "@", "x">>)])>>)])}

ClientCalls ==
  {[client |-> client, args |-> sendMessage(client, data)] :
     client \in RequestClients, data \in RequestBodies}
  \cup {[client |-> client, args |-> getMessage(client, <<"m">>)] :
          client \in RequestClients}

\* A body text over 100 characters that is not JSON.
LongText == [i \in 1..101 |-> IF i = 101 THEN "!" ELSE "x"]

ResponseStatuses == {200, 204, 299, 300, 404, 500}

ResponseTexts ==
  {<<"{", "\"", "r", "e", "q", "u", "e", "s", "t", "_", "i", "d", "\"", ":", "\"", "r", "\"", ",", "\"", "d", "a", "t", "a", "\"", ":", "{", "\"", "i", "d", "\"", ":", "\"", "m", "\"", "}", "}">>,
   <<"{", "\"", "r", "e", "q", "u", "e", "s", "t", "_", "i", "d", "\"", ":", "\"", "r", "\"", ",", "\"", "e", "r", "r", "o", "r", "\"", ":", "{", "\"", "t", "y", "p", "e", "\"", ":", "\"", "t", "\"", ",", "\"", "m", "e", "s", "s", "a", "g", "e", "\"", ":", "\"", "M", "\"", "}", "}">>,
   <<"{", "\"", "r", "e", "q", "u", "e", "s", "t", "_", "i", "d", "\"", ":", "\"", "q", "\"", ",", "\"", "e", "r", "r", "o", "r", "\"", ":", "{", "\"", "t", "y", "p", "e", "\"", ":", "\"", "t", "\"", "}", "}">>,
   <<"{", "\"", "e", "r", "r", "o", "r", "\"", ":", "{", "\"", "m", "e", "s", "s", "a", "g", "e", "\"", ":", "\"", "\"", "}", "}">>,
   <<"{", "\"", "e", "r", "r", "o", "r", "\"", ":", "\"", "e", "\"", "}">>,
   <<" ", "{", " ", "\"", "d", "a", "t", "a", "\"", " ", ":", " ", "[", " ", "1", " ", ",", " ", "-", "2", " ", "]", " ", "}", "\n">>,
   <<"{", "}">>,
   <<"n", "u", "l", "l">>,
   <<"\"", "e", "\"">>,
   <<"5">>,
   <<>>,
   <<"<", "h", "t", "m", "l", ">">>,
   <<"{", "\"", "i", "d", "\"", ":", "\"", "m", "\"">>,
   <<"{", "\"", "i", "d", "\"", ":", "\"", "m", "\"", "}", " ", "x">>,
   LongText}

InitRequest ==
  /\ qcall \in ClientCalls
  /\ qfetch = Undefined
  /\ qphase = "new"
  /\ qsent = Undefined
  /\ qoutcome = Undefined
  /\ TransformIdle
  /\ WebhookIdle
  /\ EmailsIdle
  /\ ParserIdle
  /\ CallsIdle
  /\ ResendIdle
  /\ VerifyIdle
  /\ FrameIdle

\* request runs up to its await of fetch.
RequestFetches ==
  /\ qphase = "new"
  /\ qphase' = "awaiting"
  /\ qsent' = RequestUntilFetch(qcall.client, qcall.args.method,
                                qcall.args.path, qcall.args.body)
  /\ UNCHANGED <<qcall, qfetch, qoutcome, tvars, wvars, evars, pvars, cvars,
                 rvars, vvars, fvars>>

\* fetch answers and request runs to its end.
FetchAnswers ==
  /\ qphase = "awaiting"
  /\ \E status \in ResponseStatuses, text \in ResponseTexts :
       /\ qfetch' = [status |-> status, text |-> text]
       /\ qoutcome' = RequestAfterFetch(status, text)
  /\ qphase' = "done"
  /\ UNCHANGED <<qcall, qsent, tvars, wvars, evars, pvars, cvars, rvars,
                 vvars, fvars>>

\* fetch rejects: nothing in request catches it.
FetchRejects ==
  /\ qphase = "awaiting"
  /\ qfetch' = Rejected(TypeError)
  /\ qoutcome' = Thrown(TypeError)
  /\ qphase' = "done"
  /\ UNCHANGED <<qcall, qsent, tvars, wvars, evars, pvars, cvars, rvars,
                 vvars, fvars>>

NextRequest ==
  \/ RequestFetches
  \/ FetchAnswers
  \/ FetchRejects

SpecRequest == InitRequest /\ [][NextRequest]_vars

\* ------------------------------------------------------------------------
\* The transformers called twice on one argument
\* ------------------------------------------------------------------------

Transformers ==
  {"transformSendRequest", "transformDomainSendRequest",
   "transformMessageToEmail", "transformWebhookToInboundEvent",
   "toParticipants", "participantsToEmails"}

\* What the transformer returns for the argument.
Transformer(fun, arg) ==
  CASE fun = "transformSendRequest" -> transformSendRequest(arg)
    [] fun = "transformDomainSendRequest" -> transformDomainSendRequest(arg)
    [] fun = "transformMessageToEmail" -> transformMessageToEmail(arg)
    [] fun = "transformWebhookToInboundEvent" ->
         transformWebhookToInboundEvent(arg)
    [] fun = "toParticipants" -> toParticipants(arg)
    [] fun = "participantsToEmails" -> participantsToEmails(arg)

\* Mutant: a list given as the argument is emptied while it is read.
ArgumentAfter_drained(fun, arg) ==
  IF fun \in {"toParticipants", "participantsToEmails"} /\ arg.t = "array"
  THEN List(<<>>) ELSE arg

\* The argument object once the transformer has returned: the transformers
\* read their parameter (property reads, Array.isArray, map) and never
\* assign to it or call a method that changes it.
ArgumentAfter(fun, arg) == arg

\* Arguments on which the transformer returns.
FrameArguments(fun) ==
  CASE fun \in {"transformSendRequest", "transformDomainSendRequest"} ->
         {[MinimalRequest(Str(from), to, Str(Subject))
             EXCEPT !.cc = cc, !.attachments = att, !.tags = tags] :
            from \in {AddrNamed, AddrBare},
            to \in {Str(AddrBare), List(<<AddrNamed, AddrBare>>)},
            cc \in {Undefined, List(<<AddrBare>>)},
            att \in {Undefined, List(<<AttPath>>)},
            tags \in {Undefined, List(<<"tag">>)}}
    [] fun = "transformMessageToEmail" ->
         {m \in ProviderMessages : MessageToEmailThrows(m) = Undefined}
    [] fun = "transformWebhookToInboundEvent" ->
         {p \in PayloadValues :
            isMessageCreatedWebhook(p) /\ ~WebhookTransformThrows(p)}
    [] fun = "toParticipants" ->
         {Undefined, Str(<<>>), Str(AddrNamed), List(<<>>),
          List(<<AddrNamed, AddrBare>>)}
    [] fun = "participantsToEmails" ->
         {Undefined, List(<<>>), List(<<SenderNamed, SenderBare>>)}

InitFrame ==
  /\ ffun \in Transformers
  /\ fgiven \in FrameArguments(ffun)
  /\ farg = fgiven
  /\ fphase = "given"
  /\ fout = Undefined
  /\ fagain = Undefined
  /\ TransformIdle
  /\ WebhookIdle
  /\ EmailsIdle
  /\ ParserIdle
  /\ CallsIdle
  /\ ResendIdle
  /\ VerifyIdle
  /\ RequestIdle

\* The transformer is called on the argument object.
CallTransformer ==
  /\ fphase = "given"
  /\ fphase' = "returned"
  /\ fout' = Transformer(ffun, farg)
  /\ farg' = ArgumentAfter(ffun, farg)
  /\ UNCHANGED <<ffun, fgiven, fagain, tvars, wvars, evars, pvars, cvars,
                 rvars, vvars, qvars>>

\* It is called once more on the same object.
CallTransformerAgain ==
  /\ fphase = "returned"
  /\ fphase' = "again"
  /\ fagain' = Transformer(ffun, farg)
  /\ farg' = ArgumentAfter(ffun, farg)
  /\ UNCHANGED <<ffun, fgiven, fout, tvars, wvars, evars, pvars, cvars,
                 rvars, vvars, qvars>>

NextFrame ==
  \/ CallTransformer
  \/ CallTransformerAgain

SpecFrame == InitFrame /\ [][NextFrame]_vars

\* ------------------------------------------------------------------------
\* The address functions called directly
\* ------------------------------------------------------------------------

\* The characters of the strings of the model: a letter, a blank, the two
\* angle brackets and a line terminator.
AddressChars == {"a", " ", "<", ">", "\n"}

InitParser ==
  /\ pname \in SeqsUpTo(AddressChars, MaxNameLen)
  /\ pemail \in SeqsUpTo(AddressChars, MaxEmailLen)
  /\ pphase = "args"
  /\ pinput = Undefined
  /\ pout = Undefined
  /\ TransformIdle
  /\ WebhookIdle
  /\ EmailsIdle
  /\ CallsIdle
  /\ ResendIdle
  /\ VerifyIdle
  /\ RequestIdle
  /\ FrameIdle

\* parseEmailAddress(name + " <" + email + ">")
ParseNamedForm ==
  /\ pphase = "args"
  /\ pphase' = "named"
  /\ pinput' = Str(pname \o <<" ", "<">> \o pemail \o <<">">>)
  /\ pout' = parseEmailAddress(pinput'.s)
  /\ UNCHANGED <<pname, pemail, tvars, wvars, evars, xvars>>

\* parseEmailAddress of any string: the two strings of the caller joined
ParseString ==
  /\ pphase = "args"
  /\ pphase' = "parsed"
  /\ pinput' = Str(pname \o pemail)
  /\ pout' = parseEmailAddress(pinput'.s)
  /\ UNCHANGED <<pname, pemail, tvars, wvars, evars, xvars>>

\* formatParticipant(parseEmailAddress(formatParticipant(p)))
RoundTrip ==
  /\ pphase = "args"
  /\ pphase' = "roundtrip"
  /\ pinput' = Participant(Str(pname), pemail)
  /\ pout' = LET formatted == formatParticipant(pinput')
                 parsed == parseEmailAddress(formatted)
             IN [formatted |-> formatted, parsed |-> parsed,
                 again |-> formatParticipant(parsed)]
  /\ UNCHANGED <<pname, pemail, tvars, wvars, evars, xvars>>

\* toParticipants of nothing, of one string and of lists of strings
ToParticipants ==
  /\ pphase = "args"
  /\ pphase' = "participants"
  /\ \E input \in {Undefined, Str(pname), List(<<>>), List(<<pname>>),
                   List(<<pname, pemail>>)} :
       /\ pinput' = input
       /\ pout' = toParticipants(input)
  /\ UNCHANGED <<pname, pemail, tvars, wvars, evars, xvars>>

NextParser ==
  \/ ParseNamedForm
  \/ ParseString
  \/ RoundTrip
  \/ ToParticipants

SpecParser == InitParser /\ [][NextParser]_vars

\* ------------------------------------------------------------------------
\* The webhook handler
\* ------------------------------------------------------------------------

InitWebhook ==
  /\ payload \in PayloadValues
  /\ wphase = "received"
  /\ woutcome = "none"
  /\ event = Undefined
  /\ TransformIdle
  /\ EmailsIdle
  /\ ParserIdle
  /\ CallsIdle
  /\ ResendIdle
  /\ VerifyIdle
  /\ RequestIdle
  /\ FrameIdle

HandleInboundWebhook ==
  /\ wphase = "received"
  /\ wphase' = "returned"
  /\ woutcome' = handleInboundWebhook(payload).outcome
  /\ event' = handleInboundWebhook(payload).event
  /\ UNCHANGED <<payload, tvars, evars, pvars, xvars>>

NextWebhook == HandleInboundWebhook

SpecWebhook == InitWebhook /\ [][NextWebhook]_vars

\* ------------------------------------------------------------------------
\* The Emails facade over a client whose promises settle in any way
\* ------------------------------------------------------------------------

InitEmails ==
  /\ domain \in {Undefined, Str(<<>>), Str(<<"d">>)}
  /\ ecall \in [op : {"send"}, arg : SendArguments]
             \cup [op : {"get"}, arg : GetArguments]
             \cup [op : {"list"}, arg : ListArguments]
  /\ epc = "called"
  /\ elog = <<>>
  /\ esettled = Undefined
  /\ eresult = Undefined
  /\ TransformIdle
  /\ WebhookIdle
  /\ ParserIdle
  /\ CallsIdle
  /\ ResendIdle
  /\ VerifyIdle
  /\ RequestIdle
  /\ FrameIdle

\* The facade method runs c, a piece of its body, to the next await, return
\* or throw.
Run(c) ==
  /\ elog' = elog \o c.calls
  /\ epc' = CASE c.kind = "await" -> "awaiting"
             [] c.kind = "return" -> "returned"
             [] c.kind = "throw" -> "rejected"
  /\ eresult' = IF c.kind = "return" THEN c.result ELSE Undefined

EmailsSend ==
  /\ epc = "called"
  /\ ecall.op = "send"
  /\ Run(Catch(SendUntilAwait(ecall.arg, domain)))
  /\ UNCHANGED <<domain, ecall, esettled, tvars, wvars, pvars, xvars>>

EmailsGet ==
  /\ epc = "called"
  /\ ecall.op = "get"
  /\ Run(Catch(GetUntilAwait(ecall.arg)))
  /\ UNCHANGED <<domain, ecall, esettled, tvars, wvars, pvars, xvars>>

EmailsList ==
  /\ epc = "called"
  /\ ecall.op = "list"
  /\ Run(Catch(ListUntilAwait(ecall.arg)))
  /\ UNCHANGED <<domain, ecall, esettled, tvars, wvars, pvars, xvars>>

\* The ways the client promise of the call can settle.
Settlements ==
  {Resolved(r) : r \in Responses(ecall.op)} \cup {Rejected(e) : e \in Rejections}

SendResumes ==
  /\ epc = "awaiting"
  /\ ecall.op = "send"
  /\ \E settled \in Settlements :
       /\ esettled' = settled
       /\ Run(Catch(SendAfterAwait(settled, domain)))
  /\ UNCHANGED <<domain, ecall, tvars, wvars, pvars, xvars>>

GetResumes ==
  /\ epc = "awaiting"
  /\ ecall.op = "get"
  /\ \E settled \in Settlements :
       /\ esettled' = settled
       /\ Run(Catch(GetAfterAwait(settled)))
  /\ UNCHANGED <<domain, ecall, tvars, wvars, pvars, xvars>>

ListResumes ==
  /\ epc = "awaiting"
  /\ ecall.op = "list"
  /\ \E settled \in Settlements :
       /\ esettled' = settled
       /\ Run(Catch(ListAfterAwait(settled)))
  /\ UNCHANGED <<domain, ecall, tvars, wvars, pvars, xvars>>

NextEmails ==
  \/ EmailsSend
  \/ EmailsGet
  \/ EmailsList
  \/ SendResumes
  \/ GetResumes
  \/ ListResumes

SpecEmails == InitEmails /\ [][NextEmails]_vars

\* ------------------------------------------------------------------------
\* Properties of the send transformers (checked under SpecTransform)
\* ------------------------------------------------------------------------

GrantReturned == tphase = "returned" /\ variant = "grant"
DomainReturned == tphase = "returned" /\ variant = "domain"

PublicField(k) == IF k = "reply_to" THEN "replyTo" ELSE k

\* C8: no wire send request carries an empty list for cc, bcc or reply_to:
\* in both transforms such a key is present only with the converted list,
\* which then has at least one element, and it is absent when the public field
\* is absent or an explicit empty list; the grant transform sets the key
\* whenever the converted list has an element.
C8_NoEmptyRecipientList ==
  tphase = "returned" =>
    \A k \in {"cc", "bcc", "reply_to"} :
      LET converted == toParticipants(request[PublicField(k)])
      IN /\ k \in wire.keys =>
              /\ wire[k] = converted
              /\ wire[k].t = "array"
              /\ Len(wire[k].l) >= 1
         /\ request[PublicField(k)] \in {Undefined, List(<<>>)} =>
              k \notin wire.keys
         /\ (variant = "grant" \/ k # "reply_to") =>
              (k \in wire.keys <=> NonEmptyList(converted))

\* C8 witness: a transform has run on a request whose cc is the explicit
\* empty list and whose bcc has recipients: cc is dropped, bcc is kept.
C8_Witness ==
  /\ tphase = "returned"
  /\ request.cc = List(<<>>)
  /\ NonEmptyList(request.bcc)
  /\ "cc" \notin wire.keys
  /\ "bcc" \in wire.keys

\* C9 as stated: in the domain-send transform is_plaintext is true exactly
\* when html is absent and text is present; whenever html is present,
\* whatever its value, is_plaintext is false.
C9_PlaintextIffHtmlAbsentTextPresent ==
  DomainReturned =>
    (wire.is_plaintext <=>
       (request.html = Undefined /\ request.text # Undefined))

\* C9 amended: in the domain-send transform is_plaintext is true exactly when
\* html is absent or the empty string and text is a non-empty string; whenever
\* html is a non-empty string (whatever text is) is_plaintext is false.
C9_PlaintextIffNoHtmlAndText ==
  DomainReturned =>
    (wire.is_plaintext <=>
       (/\ request.html \in {Undefined, Str(<<>>)}
        /\ request.text \notin {Undefined, Str(<<>>)}))

\* C9 witness: the domain transform has run on a text-only request and has
\* marked it plain text.
C9_Witness ==
  /\ DomainReturned
  /\ request.html = Undefined
  /\ request.text = Str(<<"t">>)
  /\ wire.is_plaintext

\* The request without attachments, scheduledAt and replyTo.
WithoutDropped(r) ==
  [r EXCEPT !.attachments = Undefined, !.scheduledAt = Undefined,
            !.replyTo = Undefined]

\* C10: the domain-send transform drops attachments, scheduledAt and replyTo:
\* its output has no attachments, send_at or reply_to key and is the output
\* for the same request with those three fields removed (same from, to, cc,
\* bcc, subject, body and is_plaintext).
C10_DomainDropsUnsupported ==
  DomainReturned =>
    /\ wire.keys \cap {"attachments", "send_at", "reply_to"} = {}
    /\ wire.keys \subseteq
         {"from", "to", "cc", "bcc", "subject", "body", "is_plaintext"}
    /\ wire = transformDomainSendRequest(WithoutDropped(request))

\* C10 witness: the domain transform has run on a request that carries
\* attachments, a schedule and a reply-to at once.
C10_Witness ==
  /\ DomainReturned
  /\ NonEmptyList(request.attachments)
  /\ Truthy(request.scheduledAt)
  /\ NonEmptyList(request.replyTo)
  /\ "to" \in wire.keys

\* ------------------------------------------------------------------------
\* Properties of the webhook handler (checked under SpecWebhook)
\* ------------------------------------------------------------------------

\* C4: handleInboundWebhook never throws: for every input value the outcome
\* is either a structured inbound event or null.
C4_WebhookNeverThrows ==
  wphase = "returned" => woutcome \in {"event", "null"}

\* The guards as C5 lists them, read off the payload.
NonNullObject(v) == v.t \in {"array", "object", "buffer", "record"}
C5_FailsAGuard ==
  \/ ~NonNullObject(payload)
  \/ Get(payload, "type").t # "string"
  \/ ~NonNullObject(Get(payload, "data"))
  \/ ~NonNullObject(Get(Get(payload, "data"), "object"))
  \/ Get(payload, "type").s # MessageCreated

\* C5: handleInboundWebhook returns null for every payload that fails a
\* guard (not a non-null object, type not a string, data or data.object not a
\* non-null object, type other than "message.created" compared exactly); an
\* event is produced only when all of them pass.
C5_NullUnlessGuardsPass ==
  wphase = "returned" =>
    /\ C5_FailsAGuard => (woutcome = "null" /\ event = Null)
    /\ woutcome = "event" => ~C5_FailsAGuard

\* C5 witness: null was returned for a payload of another type (one that
\* differs from "message.created" in case only) whose data.object is a
\* well-formed message.
C5_Witness ==
  /\ wphase = "returned"
  /\ woutcome = "null"
  /\ Get(payload, "type") = Str(<<"M", "e", "s", "s", "a", "g", "e", ".", "C", "r", "e", "a", "t", "e", "d">>)
  /\ Get(Get(Get(payload, "data"), "object"), "from") = List(<<SenderBare>>)

\* ------------------------------------------------------------------------
\* Properties of the Emails facade (checked under SpecEmails)
\* ------------------------------------------------------------------------

MissingInput(v) == v \in {Undefined, Null, Str(<<>>)}

\* The first missing required field of a send request in the order from, to,
\* subject; <<>> when none is missing.
FirstMissing(r) ==
  IF MissingInput(r.from) THEN <<"f", "r", "o", "m">>
  ELSE IF MissingInput(r.to) \/ r.to = List(<<>>) THEN <<"t", "o">>
  ELSE IF MissingInput(r.subject) THEN <<"s", "u", "b", "j", "e", "c", "t">>
  ELSE <<>>

SendOfRequest == ecall.op = "send" /\ ecall.arg.t = "record"

\* C2: when a required input is missing the facade returns data null and a
\* "validation_error" and makes no transformer call and no transport call;
\* for send the message names the first missing field in the order from, to
\* (empty string or empty list), subject; for get an empty emailId is rejected
\* the same way.
C2_ValidationBeforeAnyCall ==
  /\ (SendOfRequest /\ FirstMissing(ecall.arg.f) # <<>>) =>
       /\ elog = <<>>
       /\ epc \in {"called", "returned"}
       /\ epc = "returned" =>
            eresult = Failure(ResendError(
                        MissingField \o FirstMissing(ecall.arg.f),
                        ValidationErrorName, Undefined))
  /\ (ecall.op = "get" /\ MissingInput(ecall.arg)) =>
       /\ elog = <<>>
       /\ epc \in {"called", "returned"}
       /\ epc = "returned" =>
            /\ eresult.data = Null
            /\ eresult.error.name = ValidationErrorName
            /\ eresult.error.message = MissingEmailId

\* C2 witness: send has returned for a request with from present and both to
\* (an empty list) and subject missing: the message names to.
C2_Witness ==
  /\ epc = "returned"
  /\ SendOfRequest
  /\ ecall.arg.f.from = Str(AddrNamed)
  /\ ecall.arg.f.to = List(<<>>)
  /\ ecall.arg.f.subject = Str(<<>>)
  /\ eresult.error.message = MissingField \o <<"t", "o">>

\* A send call whose request passes validation.
ValidSend == SendOfRequest /\ FirstMissing(ecall.arg.f) = <<>>

DomainConfigured == domain.t = "string" /\ domain.s # <<>>

\* The calls C3 expects of a valid send, by whether a domain is configured.
ExpectedTransform ==
  IF DomainConfigured THEN Step("transformDomainSendRequest", ecall.arg.f)
  ELSE Step("transformSendRequest", ecall.arg.f)
ExpectedTransport ==
  IF DomainConfigured
  THEN Step("sendDomainMessage", transformDomainSendRequest(ecall.arg.f))
  ELSE Step("sendMessage", transformSendRequest(ecall.arg.f))
ExpectedResponseTransform ==
  LET response == IF esettled.kind = "resolve" THEN esettled.response
                  ELSE Undefined
  IN IF DomainConfigured THEN Step("transformDomainSendResponse", response)
     ELSE Step("transformSendResponse", response)

\* C3 as stated: every send that passes validation has, when it returns, run
\* the outbound transform, one transport call and the matching response
\* transform, once each and in this order, in the variant the configured
\* domain selects.
C3_AllThreeStepsOnEveryValidSend ==
  (ValidSend /\ epc = "returned") =>
    elog = <<ExpectedTransform, ExpectedTransport, ExpectedResponseTransform>>

\* C3 amended: every send that passes validation runs the outbound transform
\* and then exactly one transport call, once each; when the transport call
\* succeeds it then runs the matching response transform once and returns,
\* and when the transport call fails it returns the error result without any
\* response transform. The transport call is send-via-domain (with the
\* domain-variant wire request) exactly when a domain is configured and
\* send-via-grant (with the grant-variant wire request) otherwise; the other
\* send operation is never called.
C3_SendStepsInOrder ==
  ValidSend =>
    /\ epc = "called" => elog = <<>>
    /\ epc = "awaiting" => elog = <<ExpectedTransform, ExpectedTransport>>
    /\ (epc = "returned" /\ esettled.kind = "resolve") =>
         elog = <<ExpectedTransform, ExpectedTransport,
                  ExpectedResponseTransform>>
    /\ (epc = "returned" /\ esettled.kind = "reject") =>
         elog = <<ExpectedTransform, ExpectedTransport>>
    /\ epc \in {"called", "awaiting", "returned"}

\* C3 witness: with a domain configured a valid send has gone through the
\* domain transform, send-via-domain and the domain response transform and
\* has returned the id.
C3_Witness ==
  /\ ValidSend
  /\ DomainConfigured
  /\ epc = "returned"
  /\ Len(elog) = 3
  /\ elog[2].step = "sendDomainMessage"
  /\ eresult = Success([id |-> Str(<<"m">>)])

\* The error C6 expects for a thrown value.
ExpectedError(err) ==
  CASE err.t = "NylasRequestError" ->
         ResendError(err.message,
                     IF err.errorType \in {Undefined, Str(<<>>)}
                     THEN <<"a", "p", "i", "_", "e", "r", "r", "o", "r">> ELSE err.errorType.s,
                     err.statusCode)
    [] err.t = "Error" -> ResendError(err.message, err.name, Undefined)
    [] err.t = "string" ->
         ResendError(err.s, <<"u", "n", "k", "n", "o", "w", "n", "_", "e", "r", "r", "o", "r">>, Undefined)
    [] OTHER ->
         ResendError(StringOf(err), <<"u", "n", "k", "n", "o", "w", "n", "_", "e", "r", "r", "o", "r">>, Undefined)

\* C6: the error the facade returns is determined by the kind of value
\* thrown: a NylasRequestError gives its message, its errorType ("api_error"
\* when it has none) as name and its status as statusCode; another Error
\* gives its message and name and no statusCode; a value that is not an Error
\* gives its string form, "unknown_error" and no statusCode.
C6_ErrorByKindOfThrown ==
  (epc = "returned" /\ esettled # Undefined /\ esettled.kind = "reject") =>
    eresult = Failure(ExpectedError(esettled.err))

\* C6 witness: a call has returned after the client rejected with a
\* NylasRequestError that has no errorType: the name is "api_error" and the
\* statusCode is the error's status.
C6_Witness ==
  /\ epc = "returned"
  /\ esettled = Rejected(NylasRequestError(<<"N", "o", "t", " ", "f", "o", "u", "n", "d">>, Num(404), Undefined, Undefined))
  /\ eresult.error.name = <<"a", "p", "i", "_", "e", "r", "r", "o", "r">>
  /\ eresult.error.statusCode = Num(404)

\* ------------------------------------------------------------------------
\* Properties of the warnings (checked under SpecWarnings)
\* ------------------------------------------------------------------------

Count(seq, x) == Cardinality({i \in DOMAIN seq : seq[i] = x})

\* The condition of C11 for a field; "present" is read the way the rest of
\* the interface reads it: given and not the empty string.
C11_Holds(f) ==
  CASE f = "headers" -> request.headers.t = "object" /\ request.headers.n > 0
    [] f = "tags" -> request.tags.t = "array" /\ Len(request.tags.l) > 0
    [] f = "attachments" ->
         request.attachments.t = "array" /\ Len(request.attachments.l) > 0
    [] f = "scheduledAt" -> request.scheduledAt \notin {Undefined, Str(<<>>)}
    [] f = "replyTo" -> request.replyTo \notin {Undefined, Str(<<>>)}

C12_GrantWarnsForHeadersAndTags ==
  GrantReturned =>
    /\ Count(warnings, "headers")
         = IF request.headers.t = "object" /\ request.headers.n > 0
           THEN 1 ELSE 0
    /\ Count(warnings, "tags")
         = IF request.tags.t = "array" /\ Len(request.tags.l) > 0
           THEN 1 ELSE 0
    /\ \A i \in DOMAIN warnings : warnings[i] \in {"headers", "tags"}
    /\ wire # Undefined
    /\ {"subject", "body", "to"} \subseteq wire.keys

\* Both warnings, and the wire request is returned.
C12_Witness ==
  /\ GrantReturned
  /\ warnings = <<"headers", "tags">>
  /\ wire.subject = request.subject

\* ------------------------------------------------------------------------
\* Properties of send_at and attachments (checked under SpecTransform)
\* ------------------------------------------------------------------------

\* C13: in the grant-send transform send_at is present exactly when
\* scheduledAt is given and parses to a valid date, and is then the floor of
\* the date's epoch milliseconds divided by 1000; an unparseable scheduledAt
\* gives a wire request without send_at.
C13_SendAtIsFlooredSeconds ==
  GrantReturned =>
    LET given == request.scheduledAt # Undefined
        ms == IF given THEN DateGetTime(request.scheduledAt.s) ELSE NaN
    IN /\ ("send_at" \in wire.keys) <=> (given /\ ms # NaN)
       /\ "send_at" \in wire.keys =>
            /\ wire.send_at.t = "number"
            /\ wire.send_at.n * 1000 <= ms.n
            /\ ms.n < wire.send_at.n * 1000 + 1000
       /\ "send_at" \notin wire.keys => wire.send_at = Undefined

\* A date of 1.5 seconds after the epoch is sent at second 1.
C13_Witness ==
  /\ GrantReturned
  /\ request.scheduledAt = Str(DateHalfSecond)
  /\ "send_at" \in wire.keys
  /\ wire.send_at = Num(1)

NoOuterSpace(s) ==
  s = <<>> \/ (s[1] \notin WhiteSpace /\ s[Len(s)] \notin WhiteSpace)

\* e is s without its leading and trailing white space.
IsTrimOf(e, s) ==
  /\ NoOuterSpace(e)
  /\ \E lo \in 1..(Len(s) + 1) :
     \E hi \in 0..Len(s) :
       /\ e = SubSeq(s, lo, hi)
       /\ AllIn(s, 1, lo - 1, WhiteSpace)
       /\ AllIn(s, hi + 1, Len(s), WhiteSpace)

\* What C15 expects of parseEmailAddress(name + " <" + email + ">").
C15_Expected ==
  /\ pout.email = Trim(pemail)
  /\ Trim(pname) # <<>> => pout.name = Str(Trim(pname))
  /\ Trim(pname) = <<>> => pout.name = Undefined

C15_WellFormed ==
  LET name == Trim(pname)
  IN /\ NoneIn(name, 1, Len(name), {"<"} \cup LineTerminator)
     /\ pemail # <<>>
     /\ NoneIn(pemail, 1, Len(pemail), LineTerminator)
     /\ name = <<>> => NoneIn(pemail, 1, Len(pemail), {"<"})

NoBracketPattern(s) ==
  LET t == Trim(s)
  IN ~(\E j \in 1..(Len(t) - 2) : t[j] = "<" /\ t[Len(t)] = ">")

\* C16: parseEmailAddress returns a participant for every string; for a
\* string without an angle bracket, and for one whose brackets do not form
\* the pattern (unbalanced brackets, say), the participant has no name and its
\* email is the whole string, trimmed.
C16_WholeStringWhenNoPattern ==
  pphase = "parsed" =>
    /\ DOMAIN pout = {"name", "email"}
    /\ pout.email \in Seq(AddressChars)
    /\ NoneIn(pinput.s, 1, Len(pinput.s), {"<", ">"}) =>
         pout.name = Undefined /\ IsTrimOf(pout.email, pinput.s)
    /\ NoBracketPattern(pinput.s) =>
         pout.name = Undefined /\ IsTrimOf(pout.email, pinput.s)

\* An unbalanced bracket with blanks around the string.
C16_Witness ==
  /\ pphase = "parsed"
  /\ pinput = Str(<<" ", "a", "<", "a", " ">>)
  /\ pout = Participant(Undefined, <<"a", "<", "a">>)

C17_Canonical ==
  /\ pname # <<>>
  /\ pemail # <<>>
  /\ NoOuterSpace(pname)
  /\ NoOuterSpace(pemail)
  /\ NoneIn(pname, 1, Len(pname), {"<"} \cup LineTerminator)
  /\ NoneIn(pemail, 1, Len(pemail), LineTerminator)

ParticipantIsTrimmed(p) ==
  /\ NoOuterSpace(p.email)
  /\ \/ p.name = Undefined
     \/ /\ p.name.t = "string"
        /\ p.name.s # <<>>
        /\ NoOuterSpace(p.name.s)

\* C18: every participant parseEmailAddress produces, alone or as an element
\* of the list of toParticipants, has an email with no leading or trailing
\* white space and a name that is absent or non-empty with no leading or
\* trailing white space; the name is never the empty string.
C18_ParticipantsAreTrimmed ==
  /\ pphase \in {"named", "parsed"} => ParticipantIsTrimmed(pout)
  /\ pphase = "roundtrip" => ParticipantIsTrimmed(pout.parsed)
  /\ pphase = "participants" /\ pout # Undefined =>
       \A i \in DOMAIN pout.l : ParticipantIsTrimmed(pout.l[i])

\* Blanks after the name and after the address are both removed.
C18_Witness ==
  /\ pphase = "named"
  /\ pname = <<"a", " ">>
  /\ pemail = <<"a", " ">>
  /\ pout = Participant(Str(<<"a">>), <<"a">>)

\* C19: toParticipants returns undefined for an undefined or otherwise falsy
\* input, the empty list for the empty list, a one-element list for a single
\* non-empty string, and for a list of strings the list of the same length
\* whose i-th element is parseEmailAddress of the i-th string.
C19_ToParticipantsMapsInOrder ==
  pphase = "participants" =>
    /\ pinput \in {Undefined, Str(<<>>)} => pout = Undefined
    /\ pinput = List(<<>>) => pout = List(<<>>)
    /\ pinput.t = "string" /\ pinput.s # <<>> =>
         /\ pout.t = "array"
         /\ Len(pout.l) = 1
         /\ pout.l[1] = parseEmailAddress(pinput.s)
    /\ pinput.t = "array" =>
         /\ pout.t = "array"
         /\ Len(pout.l) = Len(pinput.l)
         /\ \A i \in DOMAIN pinput.l :
              pout.l[i] = parseEmailAddress(pinput.l[i])

\* A list of two strings gives the two participants in the order given.
C19_Witness ==
  /\ pphase = "participants"
  /\ pinput = List(<< <<"<", "a", ">">>, <<"a", "a">> >>)
  /\ pout = List(<<Participant(Undefined, <<"a">>),
                   Participant(Undefined, <<"a", "a">>)>>)

\* ------------------------------------------------------------------------
\* Properties of the response transform (checked under SpecEmails)
\* ------------------------------------------------------------------------

\* The bare addresses of a provider list, [] when the list is absent.
C20_Addresses(list, emails) ==
  IF list = Undefined THEN emails = <<>>
  ELSE /\ Len(emails) = Len(list.l)
       /\ \A i \in DOMAIN list.l : emails[i] = list.l[i].email

\* What C20 says of the email made of a provider message.
C20_Mapped(message, email) ==
  LET from == Get(message, "from")
  IN /\ email.from =
          IF Len(from.l) = 0 THEN <<>>
          ELSE IF from.l[1].name \in {Undefined, Str(<<>>)}
               THEN from.l[1].email
               ELSE from.l[1].name.s \o <<" ", "<">> \o from.l[1].email
                    \o <<">">>
     /\ C20_Addresses(Get(message, "to"), email.to)
     /\ C20_Addresses(Get(message, "cc"), email.cc)
     /\ C20_Addresses(Get(message, "bcc"), email.bcc)
     /\ C20_Addresses(Get(message, "reply_to"), email.replyTo)
     /\ email.text = Get(message, "body")
     /\ email.html = Get(message, "body")
     /\ email.object = "email"
     /\ email.lastEvent = <<"e", "m", "a", "i", "l", ".", "s", "e", "n", "t">>

EventMessage == Get(Get(payload, "data"), "object")

C23_Addresses(list, emails) ==
  IF list \in {Undefined, Null} THEN emails = <<>>
  ELSE /\ DOMAIN emails = 1..Len(list.l)
       /\ \A i \in DOMAIN list.l : emails[i] = list.l[i].email

\* C23: in every inbound event data.to, data.cc, data.bcc and data.replyTo
\* are lists, the empty list when the message has no such list; data.from is
\* the formatted first from-participant or "" when the from list is empty;
\* data.text and data.html are both the message body.
C23_EventListsAndSender ==
  woutcome = "event" =>
    LET from == Get(EventMessage, "from")
    IN /\ C23_Addresses(Get(EventMessage, "to"), event.data.to)
       /\ C23_Addresses(Get(EventMessage, "cc"), event.data.cc)
       /\ C23_Addresses(Get(EventMessage, "bcc"), event.data.bcc)
       /\ C23_Addresses(Get(EventMessage, "reply_to"), event.data.replyTo)
       /\ event.data.from =
            IF Len(from.l) = 0 THEN <<>>
            ELSE IF from.l[1].name \in {Undefined, Str(<<>>)}
                 THEN from.l[1].email
                 ELSE from.l[1].name.s \o <<" ", "<">> \o from.l[1].email
                      \o <<">">>
       /\ event.data.text = Get(EventMessage, "body")
       /\ event.data.html = Get(EventMessage, "body")

\* A named first sender, a message without to and cc lists.
C23_Witness ==
  /\ woutcome = "event"
  /\ Get(EventMessage, "from") = List(<<SenderNamed, SenderBare>>)
  /\ Get(EventMessage, "to") = Undefined
  /\ event.data.from = <<"N", " ", "<", "b", "@", "x", ">">>
  /\ event.data.to = <<>>
  /\ event.data.bcc = <<>>
  /\ event.data.replyTo = << <<"b", "@", "x">> >>

\* ------------------------------------------------------------------------
\* Properties of concurrent calls (checked under SpecConcurrent)
\* ------------------------------------------------------------------------

\* The result of a call that runs alone: its method body from the call to
\* its return, over its own argument and its own settled promise.
C24_ResultAlone(call) ==
  LET first ==
        CASE call.op = "send" -> Catch(SendUntilAwait(call.arg, cdomain))
          [] call.op = "get" -> Catch(GetUntilAwait(call.arg))
          [] call.op = "list" -> Catch(ListUntilAwait(call.arg))
  IN IF first.kind = "return" THEN first.result
     ELSE CASE call.op = "send" ->
                 Catch(SendAfterAwait(call.settled, cdomain)).result
            [] call.op = "get" -> Catch(GetAfterAwait(call.settled)).result
            [] call.op = "list" -> Catch(ListAfterAwait(call.settled)).result

C25_Missing(v) == v \in {Undefined, Str(<<>>)}

C26_AlwaysTrueAndWarns ==
  vcalls > 0 => /\ vresult = TRUE
                /\ vwarned = vcalls

\* A second call, with a signature that differs from a non-empty secret.
C26_Witness ==
  /\ vcalls = 2
  /\ vargs.signature = <<"0">>
  /\ vargs.secret = <<"k">>
  /\ vresult = TRUE
  /\ vwarned = 2

\* ------------------------------------------------------------------------
\* Properties of NylasClient.request (checked under SpecRequest)
\* ------------------------------------------------------------------------

\* fetch has answered the request with a status and a body text.
C27_Answered == qphase = "done" /\ "status" \in DOMAIN qfetch

\* C27: request returns the parsed body only when the body parses as JSON
\* and the status is 2xx; a body that is not JSON raises a NylasRequestError
\* "Invalid JSON response..." carrying the status, whatever the status; a
\* JSON body with a non-2xx status raises a NylasRequestError carrying the
\* status, the provider's error type and request id, and the provider's
\* message or "Request failed with status N" when none is given.
C27_RequestOutcomes ==
  C27_Answered =>
    LET parsed == JsonParse(qfetch.text)
        is2xx == qfetch.status \in 200..299
        invalid == <<"I", "n", "v", "a", "l", "i", "d", " ", "J", "S", "O", "N", " ", "r", "e", "s", "p", "o", "n", "s", "e">>
    IN /\ qoutcome.kind = "return" =>
            parsed.ok /\ is2xx /\ qoutcome.result = parsed.value
       /\ ~parsed.ok =>
            /\ qoutcome.kind = "throw"
            /\ qoutcome.err.t = "NylasRequestError"
            /\ SubSeq(qoutcome.err.message, 1, Len(invalid)) = invalid
            /\ qoutcome.err.statusCode = Num(qfetch.status)
       /\ parsed.ok /\ ~is2xx =>
            LET given == Get(parsed.value, "error")
                message == IF given.t = "record" THEN Get(given, "message")
                           ELSE Undefined
            IN /\ qoutcome.kind = "throw"
               /\ qoutcome.err.t = "NylasRequestError"
               /\ qoutcome.err.statusCode = Num(qfetch.status)
               /\ qoutcome.err.errorType
                    = (IF given.t = "record" THEN Get(given, "type")
                       ELSE Undefined)
               /\ qoutcome.err.requestId = Get(parsed.value, "request_id")
               /\ qoutcome.err.message
                    = (IF message \in {Undefined, Str(<<>>)}
                       THEN <<"R", "e", "q", "u", "e", "s", "t", " ", "f", "a", "i", "l", "e", "d", " ", "w", "i", "t", "h", " ", "s", "t", "a", "t", "u", "s", " ">>
                            \o StringOf(Num(qfetch.status))
                       ELSE message.s)

\* ------------------------------------------------------------------------
\* Properties of Emails.list and of the wire requests of Emails.send
\* (checked under SpecEmails)
\* ------------------------------------------------------------------------

\* The list call has returned after its client promise settled.
C28_Listed == ecall.op = "list" /\ epc = "returned" /\ esettled # Undefined

\* The provider messages of a resolved list response, <<>> when it has none.
C28_Messages ==
  IF esettled.kind = "resolve" /\ Get(esettled.response, "data").t = "array"
  THEN Get(esettled.response, "data").l ELSE <<>>

\* C28: Emails.list is all-or-nothing and order-preserving: a successful
\* result is {object: "list", data} with one email per provider message, in
\* the transport's order, each the transformMessageToEmail of its message;
\* when the transport fails or any one message cannot be converted the
\* result is data null with an error, never a partial list.
C28_ListAllOrNothing ==
  C28_Listed =>
    /\ eresult.error = Null =>
         /\ esettled.kind = "resolve"
         /\ eresult.data.object = "list"
         /\ Len(eresult.data.data) = Len(C28_Messages)
         /\ \A i \in 1..Len(C28_Messages) :
              eresult.data.data[i] = transformMessageToEmail(C28_Messages[i])
    /\ (\/ esettled.kind = "reject"
        \/ \E i \in 1..Len(C28_Messages) :
             MessageToEmailThrows(C28_Messages[i]) # Undefined) =>
         /\ eresult.data = Null
         /\ eresult.error # Null
    /\ (eresult.data = Null) # (eresult.error = Null)

\* Two messages, the first convertible and the second without a from list:
\* no list is returned.
C28_Witness ==
  /\ C28_Listed
  /\ Len(C28_Messages) = 2
  /\ MessageToEmailThrows(C28_Messages[1]) = Undefined
  /\ Nullish(Get(C28_Messages[2], "from"))
  /\ eresult.data = Null
  /\ eresult.error # Null

\* A value that is given and is not the empty string.
C29_Given(v) == v # Undefined /\ v # Null /\ v # Str(<<>>)

\* C29: every wire request Emails.send hands to the transport has a to list
\* of at least one participant, a from participant (a one-element list for
\* sendMessage, a single participant for sendDomainMessage) and a non-empty
\* subject; and the send transformers are never called with an absent or
\* empty to, from or subject.
C29_WireRequestsAreComplete ==
  \A i \in 1..Len(elog) :
    LET arg == elog[i].arg
    IN /\ elog[i].step \in {"sendMessage", "sendDomainMessage"} =>
            /\ arg.to.t = "array"
            /\ Len(arg.to.l) >= 1
            /\ C29_Given(arg.subject)
       /\ elog[i].step = "sendMessage" =>
            /\ arg.from.t = "array"
            /\ Len(arg.from.l) = 1
            /\ "from" \in arg.keys
       /\ elog[i].step = "sendDomainMessage" =>
            "email" \in DOMAIN arg.from
       /\ elog[i].step \in {"transformSendRequest",
                            "transformDomainSendRequest"} =>
            /\ C29_Given(arg.from)
            /\ C29_Given(arg.to)
            /\ arg.to # List(<<>>)
            /\ C29_Given(arg.subject)

\* A domain send of a request with two recipients has reached the transport.
C29_Witness ==
  /\ ecall.op = "send"
  /\ Len(elog) = 2
  /\ elog[1].step = "transformDomainSendRequest"
  /\ elog[2].step = "sendDomainMessage"
  /\ Len(elog[2].arg.to.l) = 2
  /\ "email" \in DOMAIN elog[2].arg.from
  /\ elog[2].arg.subject = Str(Subject)

\* ------------------------------------------------------------------------
\* Properties of the transformers' arguments (checked under SpecFrame)
\* ------------------------------------------------------------------------

====
